---- MODULE Spec2Model ----
(***************************************************************************)
(* BufferMgmt: reference-counted packet buffers (PacketBuffer), the        *)
(* single-slab pool that recycles them through a mutex-guarded free list   *)
(* (PacketBufferPool) and the registry that routes requests by NUMA        *)
(* affinity and size class (PoolManager).                                  *)
(*                                                                         *)
(* Pointers into a pool's arena are integers (offsets from the arena       *)
(* base, which is never 0 for a unit's data region).  A pool object is     *)
(* named <<numa node, payload size>>, which is unique because no pool is   *)
(* ever destroyed before the process ends; a PacketBuffer* is the pair     *)
(* <<pool, unit index>>.  Each thread executes one call at a time;         *)
(* thr[t].pc is its position inside that call.                             *)
(***************************************************************************)
EXTENDS Integers, Sequences, FiniteSets, Bags, TLC

VARIABLES
    pools,           \* heap of PacketBufferPool objects: pool id -> object
    buffers,         \* PacketBuffer + BufferMetadata of every constructed unit
    numa_pools_,     \* PoolManager::numa_pools_: node -> (payload size -> pool id)
    manager_mutex_,  \* PoolManager::manager_mutex_: the holding thread or NoThread
    thr,             \* per thread: position in its current call and the call's locals
    held             \* per thread: bag of the references (PacketBuffer*) it owns

vars == <<pools, buffers, numa_pools_, manager_mutex_, thr, held>>

----------------------------------------------------------------------------
\* Bounds of the model.

NThreads == 2      \* threads calling into the library
MaxUnits == 2      \* initial_count of the directly constructed pool
MaxRefs == 2       \* add_ref is not called beyond this ref_count
MaxAllocs == 4     \* allocate_buffer is not called once alloc_count_ reaches this
MaxMgrAllocs == 2  \* PoolManager::allocate is not called after this many successes
MaxLen == 4        \* largest length passed to set_data_len / reserve_*
MaxSize == 2       \* payload size classes 1 .. MaxSize; requests up to MaxSize + 1
MaxPools == 4      \* pools the process has memory for

\* sizeof(BufferMetadata) + sizeof(PacketBuffer), scaled down: the part of a
\* unit that precedes its [headroom|payload|tailroom] data region.
ControlSize == 1

Threads == 1 .. NThreads
NoThread == 0
NoPool == << >>             \* null PacketBufferPool*
nullptr == 0                \* null unsigned char*
NullBuffer == <<NoPool, 0>> \* null PacketBuffer*
GlobalNode == 0 - 1         \* numa_node -1: the global / unspecified tier

\* size_t arithmetic: unsigned, wraps around (width scaled down to 16 bits).
SizeT(x) == x % (2 ^ 16)

----------------------------------------------------------------------------
\* PacketBuffer (src/src/packet_buffer.cpp).  b is the object's state.

PacketBuffer(pool, data_area_start_ptr, data_payload_capacity_val, configured_headroom, configured_tailroom, numa_node_val) ==
    [ owning_pool_          |-> pool,
      buffer_start_         |-> data_area_start_ptr,
      total_allocated_size_ |-> configured_headroom + data_payload_capacity_val
                                + configured_tailroom,
      data_ptr_             |-> data_area_start_ptr + configured_headroom,
      data_len_             |-> 0,
      headroom_             |-> configured_headroom,
      tailroom_             |-> configured_tailroom,
      current_state_        |-> "Free",     \* BufferMetadata() : current_state_(Free)
      numa_node_            |-> numa_node_val,
      ref_count_            |-> 0,
      next_                 |-> NullBuffer ]

\* (mutation of add_ref: the increment is lost)
add_ref_lost(b) == b

add_ref(b) == [b EXCEPT !.ref_count_ = @ + 1]

\* (mutation of fetch_sub: the value after the subtraction is returned)
fetch_sub_new_value(b) ==
    [obj |-> [b EXCEPT !.ref_count_ = @ - 1], pre |-> b.ref_count_ - 1]

\* ref_count_.fetch_sub(1): the new object state and the value before.
fetch_sub(b) == [obj |-> [b EXCEPT !.ref_count_ = @ - 1], pre |-> b.ref_count_]

\* (mutations of release_is_last: any release hands the unit back; none does)
release_is_last_any(pre) == pre >= 1
release_is_last_zero(pre) == pre = 0

\* release(): "if (ref_count_.fetch_sub(1) == 1)": this was the last reference.
release_is_last(pre) == pre = 1

\* (mutation of release_reset: the chain link is kept)
release_reset_keeps_next(b) ==
    [b EXCEPT !.data_ptr_ = b.buffer_start_ + b.headroom_,
              !.data_len_ = 0,
              !.current_state_ = "Released"]

\* (mutation of release_reset: only the metadata state is updated)
release_reset_state_only(b) == [b EXCEPT !.current_state_ = "Released"]

\* release(): the reset done before the unit is handed to owning_pool_.
release_reset(b) ==
    [b EXCEPT !.data_ptr_ = b.buffer_start_ + b.headroom_,
              !.data_len_ = 0,
              !.next_ = NullBuffer,
              !.current_state_ = "Released"]

capacity(b) == SizeT(b.total_allocated_size_ - b.headroom_ - b.tailroom_)

\* (mutation of set_data_len: the length is clamped to capacity())
set_data_len_clamp_capacity(b, len) ==
    IF len > capacity(b)
        THEN [b EXCEPT !.data_len_ = capacity(b)]
        ELSE [b EXCEPT !.data_len_ = len]

\* (mutation of set_data_len: the length is stored without the clamp)
set_data_len_unclamped(b, len) == [b EXCEPT !.data_len_ = len]

set_data_len(b, len) ==
    LET avail == SizeT((b.buffer_start_ + b.total_allocated_size_) - b.data_ptr_)
    IN  IF len > avail
            THEN [b EXCEPT !.data_len_ = avail]
            ELSE [b EXCEPT !.data_len_ = len]

\* (mutation of reserve_headroom: the configured headroom_ is consumed too)
reserve_headroom_consumes_configured(b, len) ==
    LET current_dynamic_headroom == SizeT(b.data_ptr_ - b.buffer_start_)
    IN  IF len > current_dynamic_headroom
            THEN [obj |-> b, ret |-> nullptr]
            ELSE [obj |-> [b EXCEPT !.data_ptr_ = @ - len,
                                    !.data_len_ = SizeT(@ + len),
                                    !.headroom_ = @ - len],
                  ret |-> b.data_ptr_ - len]

\* (mutation of reserve_headroom: data_len_ is not increased)
reserve_headroom_keeps_len(b, len) ==
    LET current_dynamic_headroom == SizeT(b.data_ptr_ - b.buffer_start_)
    IN  IF len > current_dynamic_headroom
            THEN [obj |-> b, ret |-> nullptr]
            ELSE [obj |-> [b EXCEPT !.data_ptr_ = @ - len],
                  ret |-> b.data_ptr_ - len]

\* reserve_headroom / reserve_tailroom: the new object state and the pointer returned.
reserve_headroom(b, len) ==
    LET current_dynamic_headroom == SizeT(b.data_ptr_ - b.buffer_start_)
    IN  IF len > current_dynamic_headroom
            THEN [obj |-> b, ret |-> nullptr]
            ELSE [obj |-> [b EXCEPT !.data_ptr_ = @ - len,
                                    !.data_len_ = SizeT(@ + len)],
                  ret |-> b.data_ptr_ - len]

\* (mutations of reserve_tailroom: the space check is missing; the new
\* window end is returned instead of the old one)
reserve_tailroom_unchecked(b, len) ==
    [obj |-> [b EXCEPT !.data_len_ = SizeT(@ + len)],
     ret |-> b.data_ptr_ + b.data_len_]
reserve_tailroom_new_end(b, len) ==
    LET current_dynamic_tailroom ==
            SizeT((b.buffer_start_ + b.total_allocated_size_)
                  - (b.data_ptr_ + b.data_len_))
    IN  IF len > current_dynamic_tailroom
            THEN [obj |-> b, ret |-> nullptr]
            ELSE [obj |-> [b EXCEPT !.data_len_ = SizeT(@ + len)],
                  ret |-> b.data_ptr_ + b.data_len_ + len]

reserve_tailroom(b, len) ==
    LET current_dynamic_tailroom ==
            SizeT((b.buffer_start_ + b.total_allocated_size_)
                  - (b.data_ptr_ + b.data_len_))
    IN  IF len > current_dynamic_tailroom
            THEN [obj |-> b, ret |-> nullptr]
            ELSE [obj |-> [b EXCEPT !.data_len_ = SizeT(@ + len)],
                  ret |-> b.data_ptr_ + b.data_len_]

set_next_buffer(b, next) == [b EXCEPT !.next_ = next]

----------------------------------------------------------------------------
\* PacketBufferPool (declared in src/include/packet_buffer_pool.hpp).

\* The units of pool p, in construction order.
UnitsOf(p, initial_count) == [i \in 1 .. initial_count |-> <<p, i>>]

\* Constructor + initialize_pool(): one arena, units at fixed strides, every
\* unit constructed in place with ref_count 0 and pushed onto the free list.
PacketBufferPool(p, buffer_payload_size, initial_count, numa_node, headroom, tailroom) ==
    LET unit_size == ControlSize + headroom + buffer_payload_size + tailroom
    IN  [ pool |->
            [ buffer_payload_size_            |-> buffer_payload_size,
              initial_pool_count_             |-> initial_count,
              numa_node_                      |-> numa_node,
              headroom_size_                  |-> headroom,
              tailroom_size_                  |-> tailroom,
              single_buffer_unit_alloc_size_  |-> unit_size,
              free_list_                      |-> UnitsOf(p, initial_count),
              list_mutex_                     |-> NoThread,
              alloc_count_                    |-> 0,
              dealloc_count_                  |-> 0 ],
          units |->
            [ u \in {<<p, i>> : i \in 1 .. initial_count} |->
                PacketBuffer(p, (u[2] - 1) * unit_size + ControlSize,
                             buffer_payload_size, headroom, tailroom, numa_node) ] ]

get_free_count(pool) == Len(pool.free_list_)

\* (mutation of lock_guard: the mutex is not waited for)
lock_guard_missing(mutex) == TRUE

\* std::lock_guard<std::mutex>: the constructor returns once the mutex is free.
lock_guard(mutex) == mutex = NoThread

\* free_list_.pop_back()
pop_back(list) == SubSeq(list, 1, Len(list) - 1)

\* (mutation of allocate_buffer_init: the metadata state is left as it was)
allocate_buffer_init_no_state(b) ==
    [b EXCEPT !.ref_count_ = 1,
              !.data_ptr_ = b.buffer_start_ + b.headroom_,
              !.data_len_ = 0]

\* allocate_buffer(): what the pool sets on the unit it hands out.
allocate_buffer_init(b) ==
    [b EXCEPT !.ref_count_ = 1,
              !.current_state_ = "Allocated",
              !.data_ptr_ = b.buffer_start_ + b.headroom_,
              !.data_len_ = 0]

----------------------------------------------------------------------------
\* PoolManager (src/src/pool_manager.cpp).

\* std::map::lower_bound(k): the smallest key >= k, or NoKey for end().
NoKey == 0
\* (mutation of lower_bound: upper_bound, the smallest key > k)
upper_bound(m, k) ==
    LET gt == {x \in DOMAIN m : x > k}
    IN  IF gt = {} THEN NoKey ELSE CHOOSE x \in gt : \A y \in gt : x <= y

lower_bound(m, k) ==
    LET ge == {x \in DOMAIN m : x >= k}
    IN  IF ge = {} THEN NoKey ELSE CHOOSE x \in ge : \A y \in ge : x <= y

\* (mutation of find_pool: pools whose free list is empty are passed over)
find_pool_skip_exhausted(registry, desired_payload_size, numa_node) ==
    LET free(n) == IF n \in DOMAIN registry
                       THEN {k \in DOMAIN registry[n] :
                                /\ k >= desired_payload_size
                                /\ pools[registry[n][k]].free_list_ # << >>}
                       ELSE {}
        least(S) == CHOOSE k \in S : \A k2 \in S : k <= k2
    IN  IF free(numa_node) # {} THEN registry[numa_node][least(free(numa_node))]
        ELSE IF numa_node # GlobalNode /\ free(GlobalNode) # {}
            THEN registry[GlobalNode][least(free(GlobalNode))]
        ELSE NoPool

\* (mutation of find_pool: the fallback searches every node's map)
find_pool_any_node(registry, desired_payload_size, numa_node) ==
    LET own == IF numa_node \in DOMAIN registry
                   THEN lower_bound(registry[numa_node], desired_payload_size)
                   ELSE NoKey
        others == {n \in DOMAIN registry :
                      lower_bound(registry[n], desired_payload_size) # NoKey}
        other == CHOOSE n \in others : \A n2 \in others : n <= n2
    IN  IF own # NoKey THEN registry[numa_node][own]
        ELSE IF others # {}
            THEN registry[other][lower_bound(registry[other], desired_payload_size)]
        ELSE NoPool

\* (mutation of find_pool: the global map is looked up first)
find_pool_global_first(registry, desired_payload_size, numa_node) ==
    LET own == IF numa_node \in DOMAIN registry
                   THEN lower_bound(registry[numa_node], desired_payload_size)
                   ELSE NoKey
        glob == IF GlobalNode \in DOMAIN registry
                    THEN lower_bound(registry[GlobalNode], desired_payload_size)
                    ELSE NoKey
    IN  IF glob # NoKey THEN registry[GlobalNode][glob]
        ELSE IF own # NoKey THEN registry[numa_node][own]
        ELSE NoPool

\* find_pool(): the requested node's map first, then the global map (-1).
find_pool(registry, desired_payload_size, numa_node) ==
    LET own == IF numa_node \in DOMAIN registry
                   THEN lower_bound(registry[numa_node], desired_payload_size)
                   ELSE NoKey
        glob == IF numa_node # GlobalNode /\ GlobalNode \in DOMAIN registry
                    THEN lower_bound(registry[GlobalNode], desired_payload_size)
                    ELSE NoKey
    IN  IF own # NoKey THEN registry[numa_node][own]
        ELSE IF glob # NoKey THEN registry[GlobalNode][glob]
        ELSE NoPool

----------------------------------------------------------------------------
\* Threads.

Idle ==
    [pc |-> "idle", pool |-> NoPool, buffer |-> NullBuffer,
     size |-> 0, node |-> 0, configs |-> << >>, ret |-> FALSE]

Holds(t, u) == BagIn(u, held[t])
Give(t, u) == [held EXCEPT ![t] = @ (+) SetToBag({u})]
Take(t, u) == [held EXCEPT ![t] = @ (-) SetToBag({u})]

----------------------------------------------------------------------------
\* PacketBufferPool::allocate_buffer(), one step per statement, the whole
\* body under list_mutex_.

\* The lock_guard at the top of allocate_buffer() takes list_mutex_.
\* A caller invokes pool.allocate_buffer() directly ...
AllocateBufferLock(t, p) ==
    /\ thr[t].pc = "idle"
    /\ p \in DOMAIN pools
    /\ pools[p].alloc_count_ < MaxAllocs
    /\ lock_guard(pools[p].list_mutex_)
    /\ pools' = [pools EXCEPT ![p].list_mutex_ = t]
    /\ thr' = [thr EXCEPT ![t].pc = "alloc_back", ![t].pool = p]
    /\ UNCHANGED <<buffers, numa_pools_, manager_mutex_, held>>

\* ... or PoolManager::allocate() does, on the pool find_pool() selected.
ManagerAllocateBufferLock(t) ==
    /\ thr[t].pc = "allocate_buffer"
    /\ lock_guard(pools[thr[t].pool].list_mutex_)
    /\ pools' = [pools EXCEPT ![thr[t].pool].list_mutex_ = t]
    /\ thr' = [thr EXCEPT ![t].pc = "alloc_back"]
    /\ UNCHANGED <<buffers, numa_pools_, manager_mutex_, held>>

\* (mutation of AllocateBufferBack: the failed call is counted as an allocation)
AllocateBufferBack_counts_failure(t) ==
    /\ thr[t].pc = "alloc_back"
    /\ LET p == thr[t].pool
       IN  IF pools[p].free_list_ = <<>>
               THEN /\ pools' = [pools EXCEPT ![p].list_mutex_ = NoThread,
                                              ![p].alloc_count_ = @ + 1]
                    /\ thr' = [thr EXCEPT ![t] = Idle]
               ELSE /\ thr' = [thr EXCEPT ![t].pc = "alloc_pop",
                                          ![t].buffer =
                                              pools[p].free_list_[Len(pools[p].free_list_)]]
                    /\ UNCHANGED pools
    /\ UNCHANGED <<buffers, numa_pools_, manager_mutex_, held>>

\* if (free_list_.empty()) return nullptr;  buffer = free_list_.back();
AllocateBufferBack(t) ==
    /\ thr[t].pc = "alloc_back"
    /\ LET p == thr[t].pool
       IN  IF pools[p].free_list_ = <<>>
               THEN /\ pools' = [pools EXCEPT ![p].list_mutex_ = NoThread]
                    /\ thr' = [thr EXCEPT ![t] = Idle]
               ELSE /\ thr' = [thr EXCEPT ![t].pc = "alloc_pop",
                                          ![t].buffer =
                                              pools[p].free_list_[Len(pools[p].free_list_)]]
                    /\ UNCHANGED pools
    /\ UNCHANGED <<buffers, numa_pools_, manager_mutex_, held>>

\* free_list_.pop_back();
AllocateBufferPop(t) ==
    /\ thr[t].pc = "alloc_pop"
    /\ pools' = [pools EXCEPT ![thr[t].pool].free_list_ = pop_back(@)]
    /\ thr' = [thr EXCEPT ![t].pc = "alloc_init"]
    /\ UNCHANGED <<buffers, numa_pools_, manager_mutex_, held>>

\* ref_count := 1, lifecycle state Allocated, window reset.
AllocateBufferInit(t) ==
    /\ thr[t].pc = "alloc_init"
    /\ buffers' = [buffers EXCEPT ![thr[t].buffer] = allocate_buffer_init(@)]
    /\ thr' = [thr EXCEPT ![t].pc = "alloc_count"]
    /\ UNCHANGED <<pools, numa_pools_, manager_mutex_, held>>

\* alloc_count_++; the lock_guard is destroyed; return buffer.
AllocateBufferReturn(t) ==
    /\ thr[t].pc = "alloc_count"
    /\ pools' = [pools EXCEPT ![thr[t].pool].alloc_count_ = @ + 1,
                              ![thr[t].pool].list_mutex_ = NoThread]
    /\ held' = Give(t, thr[t].buffer)
    /\ thr' = [thr EXCEPT ![t] = Idle]
    /\ UNCHANGED <<buffers, numa_pools_, manager_mutex_>>

----------------------------------------------------------------------------
\* PacketBuffer::add_ref() by a thread that owns a reference; the new
\* reference is handed to thread t2 (possibly t itself).
AddRef(t, u, t2) ==
    /\ thr[t].pc = "idle"
    /\ Holds(t, u)
    /\ buffers[u].ref_count_ < MaxRefs
    /\ buffers' = [buffers EXCEPT ![u] = add_ref(@)]
    /\ held' = Give(t2, u)
    /\ UNCHANGED <<pools, numa_pools_, manager_mutex_, thr>>

\* (mutation of release: the unit is handed to a fixed pool of the process,
\* whichever pool owns it)
release_to_fixed_pool(t, u) ==
    /\ thr[t].pc = "idle"
    /\ Holds(t, u)
    /\ LET r == fetch_sub(buffers[u])
       IN  /\ buffers' = [buffers EXCEPT ![u] = r.obj]
           /\ thr' = IF release_is_last(r.pre) /\ r.obj.owning_pool_ # NoPool
                         THEN [thr EXCEPT ![t].pc = "release_reset",
                                          ![t].pool = CHOOSE p \in DOMAIN pools : TRUE,
                                          ![t].buffer = u]
                         ELSE thr
    /\ held' = Take(t, u)
    /\ UNCHANGED <<pools, numa_pools_, manager_mutex_>>

\* PacketBuffer::release(), first statement: the atomic fetch_sub and the
\* test of the value it returns.
release(t, u) ==
    /\ thr[t].pc = "idle"
    /\ Holds(t, u)
    /\ LET r == fetch_sub(buffers[u])
       IN  /\ buffers' = [buffers EXCEPT ![u] = r.obj]
           /\ thr' = IF release_is_last(r.pre) /\ r.obj.owning_pool_ # NoPool
                         THEN [thr EXCEPT ![t].pc = "release_reset",
                                          ![t].pool = r.obj.owning_pool_,
                                          ![t].buffer = u]
                         ELSE thr
    /\ held' = Take(t, u)
    /\ UNCHANGED <<pools, numa_pools_, manager_mutex_>>

Release(t, u) == release(t, u)

\* (mutation of ReleaseReset: the reference a chain link would own is
\* dropped together with the link)
ReleaseReset_releases_next(t) ==
    /\ thr[t].pc = "release_reset"
    /\ LET u == thr[t].buffer
           n == buffers[u].next_
       IN  buffers' = IF n \in DOMAIN buffers /\ n # u
                          THEN [buffers EXCEPT ![u] = release_reset(@),
                                               ![n].ref_count_ = @ - 1]
                          ELSE [buffers EXCEPT ![u] = release_reset(@)]
    /\ thr' = [thr EXCEPT ![t].pc = "dealloc_lock"]
    /\ UNCHANGED <<pools, numa_pools_, manager_mutex_, held>>

\* release(): data_ptr_, data_len_, next_ and the metadata state are reset.
ReleaseReset(t) ==
    /\ thr[t].pc = "release_reset"
    /\ buffers' = [buffers EXCEPT ![thr[t].buffer] = release_reset(@)]
    /\ thr' = [thr EXCEPT ![t].pc = "dealloc_lock"]
    /\ UNCHANGED <<pools, numa_pools_, manager_mutex_, held>>

\* owning_pool_->deallocate_buffer(this): the lock_guard takes list_mutex_.
DeallocateBufferLock(t) ==
    /\ thr[t].pc = "dealloc_lock"
    /\ lock_guard(pools[thr[t].pool].list_mutex_)
    /\ pools' = [pools EXCEPT ![thr[t].pool].list_mutex_ = t]
    /\ thr' = [thr EXCEPT ![t].pc = "dealloc_push"]
    /\ UNCHANGED <<buffers, numa_pools_, manager_mutex_, held>>

\* (mutation of DeallocateBufferPush: the record's state is left as release() set it)
DeallocateBufferPush_keeps_state(t) ==
    /\ thr[t].pc = "dealloc_push"
    /\ pools' = [pools EXCEPT ![thr[t].pool].free_list_ = Append(@, thr[t].buffer),
                              ![thr[t].pool].dealloc_count_ = @ + 1,
                              ![thr[t].pool].list_mutex_ = NoThread]
    /\ thr' = [thr EXCEPT ![t] = Idle]
    /\ UNCHANGED <<buffers, numa_pools_, manager_mutex_, held>>

\* metadata state Free; free_list_.push_back(buffer); dealloc_count_++; unlock.
DeallocateBufferPush(t) ==
    /\ thr[t].pc = "dealloc_push"
    /\ buffers' = [buffers EXCEPT ![thr[t].buffer].current_state_ = "Free"]
    /\ pools' = [pools EXCEPT ![thr[t].pool].free_list_ = Append(@, thr[t].buffer),
                              ![thr[t].pool].dealloc_count_ = @ + 1,
                              ![thr[t].pool].list_mutex_ = NoThread]
    /\ thr' = [thr EXCEPT ![t] = Idle]
    /\ UNCHANGED <<numa_pools_, manager_mutex_, held>>

----------------------------------------------------------------------------
\* Window and chain operations by a thread that owns a reference.

SetDataLen(t, u, len) ==
    /\ thr[t].pc = "idle"
    /\ Holds(t, u)
    /\ buffers' = [buffers EXCEPT ![u] = set_data_len(@, len)]
    /\ UNCHANGED <<pools, numa_pools_, manager_mutex_, thr, held>>

ReserveHeadroom(t, u, len) ==
    /\ thr[t].pc = "idle"
    /\ Holds(t, u)
    /\ buffers' = [buffers EXCEPT ![u] = reserve_headroom(@, len).obj]
    /\ UNCHANGED <<pools, numa_pools_, manager_mutex_, thr, held>>

ReserveTailroom(t, u, len) ==
    /\ thr[t].pc = "idle"
    /\ Holds(t, u)
    /\ buffers' = [buffers EXCEPT ![u] = reserve_tailroom(@, len).obj]
    /\ UNCHANGED <<pools, numa_pools_, manager_mutex_, thr, held>>

SetNextBuffer(t, u, next) ==
    /\ thr[t].pc = "idle"
    /\ Holds(t, u)
    /\ buffers' = [buffers EXCEPT ![u] = set_next_buffer(@, next)]
    /\ UNCHANGED <<pools, numa_pools_, manager_mutex_, thr, held>>

----------------------------------------------------------------------------
\* One pool constructed directly by its user, as in the pool's tests:
\* PacketBufferPool pool(payload, count, node, headroom, tailroom).

DirectConfig == [buffer_size |-> 2, initial_count |-> MaxUnits, headroom |-> 1, tailroom |-> 1]
DirectPool == <<0, DirectConfig.buffer_size>>

InitPool(p, config) ==
    LET c == PacketBufferPool(p, config.buffer_size, config.initial_count, p[1],
                              config.headroom, config.tailroom)
    IN  /\ pools = (p :> c.pool)
        /\ buffers = c.units
        /\ numa_pools_ = << >>
        /\ manager_mutex_ = NoThread
        /\ thr = [t \in Threads |-> Idle]
        /\ held = [t \in Threads |-> EmptyBag]

Init == InitPool(DirectPool, DirectConfig)

\* The pool and reference-count calls of thread t; T are the threads a new
\* reference can be handed to.
PoolReturnStep(t, T) ==
    \/ AllocateBufferBack(t)
    \/ AllocateBufferPop(t)
    \/ AllocateBufferInit(t)
    \/ AllocateBufferReturn(t)
    \/ \E u \in DOMAIN buffers, t2 \in T : AddRef(t, u, t2)
    \/ \E u \in DOMAIN buffers : Release(t, u)
    \/ ReleaseReset(t)
    \/ DeallocateBufferLock(t)
    \/ DeallocateBufferPush(t)

PoolStep(t, T) ==
    \/ \E p \in DOMAIN pools : AllocateBufferLock(t, p)
    \/ PoolReturnStep(t, T)

\* Threads sharing one pool and its buffers.
Next == \E t \in Threads : PoolStep(t, Threads)

Spec == Init /\ [][Next]_vars

\* One thread using the pool and the buffers' windows and chain links.
Lengths == 0 .. MaxLen
User == 1

WindowStep(t) ==
    \/ \E u \in DOMAIN buffers, len \in Lengths : SetDataLen(t, u, len)
    \/ \E u \in DOMAIN buffers, len \in Lengths : ReserveHeadroom(t, u, len)
    \/ \E u \in DOMAIN buffers, len \in Lengths : ReserveTailroom(t, u, len)
    \/ \E u \in DOMAIN buffers, n \in DOMAIN buffers \cup {NullBuffer} :
           SetNextBuffer(t, u, n)

\* The pool of the buffer tests, scaled down: payload 2, headroom 1,
\* tailroom 1; two units, so that a buffer can be chained to another one.
BufferConfig == [buffer_size |-> 2, initial_count |-> 2, headroom |-> 1, tailroom |-> 1]

InitBuffer == InitPool(DirectPool, BufferConfig)

NextBuffer == PoolStep(User, {User}) \/ WindowStep(User)

SpecBuffer == InitBuffer /\ [][NextBuffer]_vars

----------------------------------------------------------------------------
\* PoolManager calls.

RECURSIVE SumAllocs(_)
SumAllocs(P) ==
    IF P = {} THEN 0
    ELSE LET p == CHOOSE x \in P : TRUE
         IN  pools[p].alloc_count_ + SumAllocs(P \ {p})

\* Successful allocations so far, over all pools.
TotalAllocs == SumAllocs(DOMAIN pools)

\* configure_pools_for_numa_node(numa_node, configs): the lock_guard takes
\* manager_mutex_; numa_pools_[numa_node] creates the node's map if absent.
ConfigureLock(t, numa_node, configs) ==
    /\ thr[t].pc = "idle"
    /\ lock_guard(manager_mutex_)
    /\ manager_mutex_' = t
    /\ numa_pools_' = IF numa_node \in DOMAIN numa_pools_
                          THEN numa_pools_
                          ELSE numa_pools_ @@ (numa_node :> << >>)
    /\ thr' = [thr EXCEPT ![t].pc = "configure", ![t].node = numa_node,
                          ![t].configs = configs]
    /\ UNCHANGED <<pools, buffers, held>>

\* add_pool(numa_node, config)
AddPool(t, numa_node, config) == ConfigureLock(t, numa_node, <<config>>)

\* One iteration of the loop over configs, or its end (return true).
\* make_unique<PacketBufferPool> either constructs the pool, which is then
\* stored under its payload size, or throws (no memory), and the call
\* returns false.  There is memory for MaxPools pools.
ConfigureNext(t) ==
    /\ thr[t].pc = "configure"
    /\ LET node == thr[t].node
           configs == thr[t].configs
           config == Head(configs)
           p == <<node, config.buffer_size>>
           c == PacketBufferPool(p, config.buffer_size, config.initial_count, node,
                                 config.headroom, config.tailroom)
       IN  IF configs = << >>
               THEN /\ thr' = [thr EXCEPT ![t].pc = "configure_return", ![t].ret = TRUE]
                    /\ manager_mutex_' = NoThread
                    /\ UNCHANGED <<pools, buffers, numa_pools_>>
           ELSE IF config.buffer_size \in DOMAIN numa_pools_[node]
               THEN /\ thr' = [thr EXCEPT ![t].configs = Tail(configs)]
                    /\ UNCHANGED <<pools, buffers, numa_pools_, manager_mutex_>>
           ELSE \/ /\ Cardinality(DOMAIN pools) < MaxPools
                   /\ pools' = pools @@ (p :> c.pool)
                   /\ buffers' = buffers @@ c.units
                   /\ numa_pools_' = [numa_pools_ EXCEPT
                                         ![node] = @ @@ (config.buffer_size :> p)]
                   /\ thr' = [thr EXCEPT ![t].configs = Tail(configs)]
                   /\ UNCHANGED manager_mutex_
                \/ /\ thr' = [thr EXCEPT ![t].pc = "configure_return",
                                         ![t].configs = << >>, ![t].ret = FALSE]
                   /\ manager_mutex_' = NoThread
                   /\ UNCHANGED <<pools, buffers, numa_pools_>>
    /\ UNCHANGED held

\* The caller has the value configure_pools_for_numa_node / add_pool returned.
ConfigureReturn(t) ==
    /\ thr[t].pc = "configure_return"
    /\ thr' = [thr EXCEPT ![t] = Idle]
    /\ UNCHANGED <<pools, buffers, numa_pools_, manager_mutex_, held>>

\* PoolManager::allocate(desired_payload_size, numa_node): the lock_guard.
AllocateLock(t, desired_payload_size, numa_node) ==
    /\ thr[t].pc = "idle"
    /\ TotalAllocs < MaxMgrAllocs
    /\ lock_guard(manager_mutex_)
    /\ manager_mutex_' = t
    /\ thr' = [thr EXCEPT ![t].pc = "find_pool", ![t].size = desired_payload_size,
                          ![t].node = numa_node]
    /\ UNCHANGED <<pools, buffers, numa_pools_, held>>

\* (mutation of AllocateFind: manager_mutex_ is kept while the selected
\* pool's allocate_buffer() runs, and is never given back)
AllocateFind_keeps_lock(t) ==
    /\ thr[t].pc = "find_pool"
    /\ LET pool == find_pool(numa_pools_, thr[t].size, thr[t].node)
       IN  thr' = IF pool # NoPool
                      THEN [thr EXCEPT ![t].pc = "allocate_buffer", ![t].pool = pool]
                      ELSE [thr EXCEPT ![t] = Idle]
    /\ UNCHANGED <<pools, buffers, numa_pools_, manager_mutex_, held>>

\* pool = find_pool(...); the mutex is unlocked; if (pool) pool->allocate_buffer()
\* else return nullptr.
AllocateFind(t) ==
    /\ thr[t].pc = "find_pool"
    /\ manager_mutex_' = NoThread
    /\ LET pool == find_pool(numa_pools_, thr[t].size, thr[t].node)
       IN  thr' = IF pool # NoPool
                      THEN [thr EXCEPT ![t].pc = "allocate_buffer", ![t].pool = pool]
                      ELSE [thr EXCEPT ![t] = Idle]
    /\ UNCHANGED <<pools, buffers, numa_pools_, held>>

\* (mutation of Deallocate: the unit is handed to its owning pool's
\* deallocate_buffer directly, whatever its ref_count)
Deallocate_to_pool(t, buffer) ==
    IF buffer = NullBuffer
        THEN thr[t].pc = "idle" /\ UNCHANGED vars
        ELSE /\ thr[t].pc = "idle"
             /\ Holds(t, buffer)
             /\ thr' = [thr EXCEPT ![t].pc = "dealloc_lock",
                                   ![t].pool = buffers[buffer].owning_pool_,
                                   ![t].buffer = buffer]
             /\ held' = Take(t, buffer)
             /\ UNCHANGED <<pools, buffers, numa_pools_, manager_mutex_>>

\* PoolManager::deallocate(buffer): null is ignored, otherwise buffer->release().
Deallocate(t, buffer) ==
    IF buffer = NullBuffer
        THEN thr[t].pc = "idle" /\ UNCHANGED vars
        ELSE release(t, buffer)

----------------------------------------------------------------------------
\* The registry and its user: pools are registered per node, buffers come
\* from PoolManager::allocate and go back through release()/deallocate().

SizeClasses == 1 .. MaxSize
ConfigNodes == {GlobalNode, 0}        \* nodes pools are registered for
RequestNodes == {GlobalNode, 0, 1}    \* nodes buffers are requested for
PoolConfigs ==
    {[buffer_size |-> s, initial_count |-> 1, headroom |-> 1, tailroom |-> 0] :
        s \in SizeClasses}

InitMgr ==
    /\ pools = << >>
    /\ buffers = << >>
    /\ numa_pools_ = << >>
    /\ manager_mutex_ = NoThread
    /\ thr = [t \in Threads |-> Idle]
    /\ held = [t \in Threads |-> EmptyBag]

ManagerStep(t) ==
    \/ \E n \in ConfigNodes, c1 \in PoolConfigs, c2 \in PoolConfigs : ConfigureLock(t, n, <<c1, c2>>)
    \/ \E n \in ConfigNodes, c \in PoolConfigs : AddPool(t, n, c)
    \/ ConfigureNext(t)
    \/ ConfigureReturn(t)
    \/ \E s \in 1 .. MaxSize + 1, n \in RequestNodes : AllocateLock(t, s, n)
    \/ AllocateFind(t)
    \/ ManagerAllocateBufferLock(t)
    \/ \E u \in DOMAIN buffers \cup {NullBuffer} : Deallocate(t, u)

NextMgr == ManagerStep(User) \/ PoolReturnStep(User, {User})

SpecMgr == InitMgr /\ [][NextMgr]_vars

----------------------------------------------------------------------------
\* The registry of the size-class scenario: payload sizes 128, 512 and 1024
\* for node 0 and 1024 for the global tier, requests of 100, 600 and 2048
\* bytes (PoolConfig's default headroom and tailroom).

ScenarioConfig(payload) ==
    [buffer_size |-> payload, initial_count |-> 1, headroom |-> 64, tailroom |-> 0]
Node0Configs == <<ScenarioConfig(128), ScenarioConfig(512), ScenarioConfig(1024)>>
GlobalConfigs == <<ScenarioConfig(1024)>>
ScenarioRequests == {100, 600, 2048}

ScenarioStep(t) ==
    \/ ConfigureLock(t, 0, Node0Configs)
    \/ ConfigureLock(t, GlobalNode, GlobalConfigs)
    \/ ConfigureNext(t)
    \/ ConfigureReturn(t)
    \/ \E s \in ScenarioRequests, n \in {0, GlobalNode} : AllocateLock(t, s, n)
    \/ AllocateFind(t)
    \/ ManagerAllocateBufferLock(t)
    \/ \E u \in DOMAIN buffers : Deallocate(t, u)

NextScenario == ScenarioStep(User) \/ PoolReturnStep(User, {User})

SpecScenario == InitMgr /\ [][NextScenario]_vars

----------------------------------------------------------------------------
\* Registration calls as a whole.  configure_pools_for_numa_node runs from
\* its first to its last statement under manager_mutex_, so for the rest of
\* the process a call is one step from the registry before it to the
\* registry after it and the value it returns.

\* (mutation of configure_loop: a config whose pair is registered replaces
\* the registered pool, the "update" policy)
RECURSIVE configure_loop_replaces(_, _, _, _, _)
configure_loop_replaces(m, numa_node, configs, i, fail_at) ==
    IF i > Len(configs) THEN [m EXCEPT !.ret = TRUE]
    ELSE LET config == configs[i]
             p == <<numa_node, config.buffer_size>>
             c == PacketBufferPool(p, config.buffer_size, config.initial_count, numa_node,
                                   config.headroom, config.tailroom)
         IN  IF i = fail_at THEN [m EXCEPT !.ret = FALSE]
             ELSE configure_loop_replaces(
                      [m EXCEPT !.pools = (p :> c.pool) @@ @,
                                !.buffers =
                                    [u \in {x \in DOMAIN @ : x[1] # p} \cup DOMAIN c.units |->
                                        IF u \in DOMAIN c.units THEN c.units[u] ELSE @[u]],
                                !.numa_pools[numa_node] = (config.buffer_size :> p) @@ @],
                      numa_node, configs, i + 1, fail_at)

\* (mutation of configure_loop: a config whose pair is registered ends the
\* call, which returns false)
RECURSIVE configure_loop_reports_conflict(_, _, _, _, _)
configure_loop_reports_conflict(m, numa_node, configs, i, fail_at) ==
    IF i > Len(configs) THEN [m EXCEPT !.ret = TRUE]
    ELSE LET config == configs[i]
             p == <<numa_node, config.buffer_size>>
             c == PacketBufferPool(p, config.buffer_size, config.initial_count, numa_node,
                                   config.headroom, config.tailroom)
         IN  IF config.buffer_size \in DOMAIN m.numa_pools[numa_node]
                 THEN [m EXCEPT !.ret = FALSE]
             ELSE IF i = fail_at THEN [m EXCEPT !.ret = FALSE]
             ELSE configure_loop_reports_conflict(
                      [m EXCEPT !.pools = @ @@ (p :> c.pool),
                                !.buffers = @ @@ c.units,
                                !.numa_pools[numa_node] = @ @@ (config.buffer_size :> p)],
                      numa_node, configs, i + 1, fail_at)

\* (mutation of configure_loop: the exception is swallowed, a null pool is
\* stored under the key and the loop goes on)
RECURSIVE configure_loop_stores_null(_, _, _, _, _)
configure_loop_stores_null(m, numa_node, configs, i, fail_at) ==
    IF i > Len(configs) THEN [m EXCEPT !.ret = TRUE]
    ELSE LET config == configs[i]
             p == <<numa_node, config.buffer_size>>
             c == PacketBufferPool(p, config.buffer_size, config.initial_count, numa_node,
                                   config.headroom, config.tailroom)
         IN  IF config.buffer_size \in DOMAIN m.numa_pools[numa_node]
                 THEN configure_loop_stores_null(m, numa_node, configs, i + 1, fail_at)
             ELSE IF i = fail_at
                 THEN configure_loop_stores_null(
                          [m EXCEPT !.numa_pools[numa_node] = @ @@ (config.buffer_size :> NoPool)],
                          numa_node, configs, i + 1, fail_at)
             ELSE configure_loop_stores_null(
                      [m EXCEPT !.pools = @ @@ (p :> c.pool),
                                !.buffers = @ @@ c.units,
                                !.numa_pools[numa_node] = @ @@ (config.buffer_size :> p)],
                      numa_node, configs, i + 1, fail_at)

\* (mutation of configure_loop: the call is atomic, a failure takes the
\* pairs of the configs before the failing one out of the registry)
RECURSIVE configure_loop_rolls_back(_, _, _, _, _)
configure_loop_rolls_back(m, numa_node, configs, i, fail_at) ==
    IF i > Len(configs) THEN [m EXCEPT !.ret = TRUE]
    ELSE LET config == configs[i]
             p == <<numa_node, config.buffer_size>>
             c == PacketBufferPool(p, config.buffer_size, config.initial_count, numa_node,
                                   config.headroom, config.tailroom)
             before == {configs[j].buffer_size : j \in 1 .. i - 1}
         IN  IF config.buffer_size \in DOMAIN m.numa_pools[numa_node]
                 THEN configure_loop_rolls_back(m, numa_node, configs, i + 1, fail_at)
             ELSE IF i = fail_at
                 THEN [m EXCEPT !.ret = FALSE,
                                !.numa_pools[numa_node] =
                                    [k \in DOMAIN @ \ before |-> @[k]]]
             ELSE configure_loop_rolls_back(
                      [m EXCEPT !.pools = @ @@ (p :> c.pool),
                                !.buffers = @ @@ c.units,
                                !.numa_pools[numa_node] = @ @@ (config.buffer_size :> p)],
                      numa_node, configs, i + 1, fail_at)

\* The loop over configs from position i on.  m is the heap, the registry
\* and the value to return; make_unique<PacketBufferPool> throws for the
\* config at position fail_at if the loop gets to construct it (0: never).
RECURSIVE configure_loop(_, _, _, _, _)
configure_loop(m, numa_node, configs, i, fail_at) ==
    IF i > Len(configs) THEN [m EXCEPT !.ret = TRUE]
    ELSE LET config == configs[i]
             p == <<numa_node, config.buffer_size>>
             c == PacketBufferPool(p, config.buffer_size, config.initial_count, numa_node,
                                   config.headroom, config.tailroom)
         IN  IF config.buffer_size \in DOMAIN m.numa_pools[numa_node]
                 THEN configure_loop(m, numa_node, configs, i + 1, fail_at)
             ELSE IF i = fail_at THEN [m EXCEPT !.ret = FALSE]
             ELSE configure_loop(
                      [m EXCEPT !.pools = @ @@ (p :> c.pool),
                                !.buffers = @ @@ c.units,
                                !.numa_pools[numa_node] = @ @@ (config.buffer_size :> p)],
                      numa_node, configs, i + 1, fail_at)

\* configure_pools_for_numa_node(numa_node, configs), the whole call; the
\* caller is left with the arguments and the value returned.
configure_pools_for_numa_node(t, numa_node, configs, fail_at) ==
    /\ thr[t].pc = "idle"
    /\ lock_guard(manager_mutex_)
    /\ LET entry == IF numa_node \in DOMAIN numa_pools_
                        THEN numa_pools_
                        ELSE numa_pools_ @@ (numa_node :> << >>)
           m == configure_loop([pools |-> pools, buffers |-> buffers,
                                numa_pools |-> entry, ret |-> FALSE],
                               numa_node, configs, 1, fail_at)
       IN  /\ pools' = m.pools
           /\ buffers' = m.buffers
           /\ numa_pools_' = m.numa_pools
           /\ thr' = [thr EXCEPT ![t].pc = "configure_return", ![t].node = numa_node,
                                 ![t].configs = configs, ![t].ret = m.ret]
    /\ UNCHANGED <<manager_mutex_, held>>

\* add_pool(numa_node, config), the whole call.
add_pool(t, numa_node, config, fail_at) ==
    configure_pools_for_numa_node(t, numa_node, <<config>>, fail_at)

\* Configs that differ in unit count, headroom and tailroom for one size class.
RegisterConfigs ==
    { [buffer_size |-> 1, initial_count |-> 1, headroom |-> 1, tailroom |-> 0],
      [buffer_size |-> 1, initial_count |-> 2, headroom |-> 0, tailroom |-> 1],
      [buffer_size |-> 2, initial_count |-> 1, headroom |-> 1, tailroom |-> 0] }

RegisterStep(t) ==
    \/ \E n \in ConfigNodes, c1 \in RegisterConfigs, c2 \in RegisterConfigs, f \in 0 .. 2 :
           configure_pools_for_numa_node(t, n, <<c1, c2>>, f)
    \/ \E n \in ConfigNodes, c \in RegisterConfigs, f \in 0 .. 1 : add_pool(t, n, c, f)
    \/ ConfigureReturn(t)
    \/ \E s \in 1 .. 2 : AllocateLock(t, s, 0)
    \/ AllocateFind(t)
    \/ ManagerAllocateBufferLock(t)
    \/ \E u \in DOMAIN buffers \cup {NullBuffer} : Deallocate(t, u)

NextRegister == RegisterStep(User) \/ PoolReturnStep(User, {User})

SpecRegister == InitMgr /\ [][NextRegister]_vars

----------------------------------------------------------------------------
\* Registration calls statement by statement, for threads that register
\* and look up concurrently.  The statement
\*     pools_for_specific_numa[config.buffer_size] = std::move(new_pool);
\* is two steps: operator[] inserts the key with a null unique_ptr, then the
\* move assignment stores the pool (destroying a pool stored before).

\* Loop head: the end of the list (return true), a registered pair (skip),
\* or make_unique<PacketBufferPool>, which constructs the pool into the
\* local new_pool or throws (return false).
ConfigureLoop(t) ==
    /\ thr[t].pc = "configure"
    /\ LET node == thr[t].node
           configs == thr[t].configs
           config == Head(configs)
           p == <<node, config.buffer_size>>
           c == PacketBufferPool(p, config.buffer_size, config.initial_count, node,
                                 config.headroom, config.tailroom)
       IN  IF configs = << >>
               THEN /\ thr' = [thr EXCEPT ![t].pc = "configure_return", ![t].ret = TRUE]
                    /\ manager_mutex_' = NoThread
                    /\ UNCHANGED <<pools, buffers>>
           ELSE IF config.buffer_size \in DOMAIN numa_pools_[node]
               THEN /\ thr' = [thr EXCEPT ![t].configs = Tail(configs)]
                    /\ UNCHANGED <<pools, buffers, manager_mutex_>>
           ELSE \/ /\ pools' = (p :> c.pool) @@ pools
                   /\ buffers' = c.units @@ buffers
                   /\ thr' = [thr EXCEPT ![t].pc = "configure_insert", ![t].pool = p]
                   /\ UNCHANGED manager_mutex_
                \/ /\ thr' = [thr EXCEPT ![t].pc = "configure_return",
                                         ![t].configs = << >>, ![t].ret = FALSE]
                   /\ manager_mutex_' = NoThread
                   /\ UNCHANGED <<pools, buffers>>
    /\ UNCHANGED <<numa_pools_, held>>

\* pools_for_specific_numa[config.buffer_size]: the key is inserted with a
\* null pool if it is absent.
ConfigureInsert(t) ==
    /\ thr[t].pc = "configure_insert"
    /\ LET node == thr[t].node
           size == Head(thr[t].configs).buffer_size
       IN  numa_pools_' = IF size \in DOMAIN numa_pools_[node]
                              THEN numa_pools_
                              ELSE [numa_pools_ EXCEPT ![node] = @ @@ (size :> NoPool)]
    /\ thr' = [thr EXCEPT ![t].pc = "configure_assign"]
    /\ UNCHANGED <<pools, buffers, manager_mutex_, held>>

\* ... = std::move(new_pool): the entry owns the new pool; next config.
ConfigureAssign(t) ==
    /\ thr[t].pc = "configure_assign"
    /\ numa_pools_' = [numa_pools_ EXCEPT
                          ![thr[t].node][Head(thr[t].configs).buffer_size] = thr[t].pool]
    /\ thr' = [thr EXCEPT ![t].pc = "configure", ![t].pool = NoPool,
                          ![t].configs = Tail(@)]
    /\ UNCHANGED <<pools, buffers, manager_mutex_, held>>

\* The configs the threads register: two size classes for node 0.
ConcurrentConfigs ==
    {[buffer_size |-> s, initial_count |-> 1, headroom |-> 1, tailroom |-> 0] : s \in 1 .. 2}

ConcurrentStep(t) ==
    \/ \E c \in ConcurrentConfigs : AddPool(t, 0, c)
    \/ ConfigureLoop(t)
    \/ ConfigureInsert(t)
    \/ ConfigureAssign(t)
    \/ ConfigureReturn(t)
    \/ \E s \in 1 .. 2 : AllocateLock(t, s, 0)
    \/ AllocateFind(t)
    \/ ManagerAllocateBufferLock(t)
    \/ AllocateBufferBack(t)
    \/ AllocateBufferPop(t)
    \/ AllocateBufferInit(t)
    \/ AllocateBufferReturn(t)
    \/ \E u \in DOMAIN buffers : Release(t, u)
    \/ ReleaseReset(t)
    \/ DeallocateBufferLock(t)
    \/ DeallocateBufferPush(t)

NextConcurrent == \E t \in Threads : ConcurrentStep(t)

SpecConcurrent == InitMgr /\ [][NextConcurrent]_vars

----------------------------------------------------------------------------
\* Threads sharing a registry that was configured at start-up, as in the
\* manager tests: one pool for node 0 and one for the global tier.  Buffers
\* are obtained from PoolManager::allocate or from a pool directly, shared
\* with add_ref, and go back through release() or deallocate().

SharedPools == {<<0, 1>>, <<GlobalNode, MaxSize>>}

InitShared ==
    LET c(p) == PacketBufferPool(p, p[2], 1, p[1], 1, 0)
    IN  /\ pools = [p \in SharedPools |-> c(p).pool]
        /\ buffers = [u \in {<<p, 1>> : p \in SharedPools} |-> c(u[1]).units[u]]
        /\ numa_pools_ = [n \in {p[1] : p \in SharedPools} |->
                             LET P == {p \in SharedPools : p[1] = n}
                             IN  [k \in {p[2] : p \in P} |-> <<n, k>>]]
        /\ manager_mutex_ = NoThread
        /\ thr = [t \in Threads |-> Idle]
        /\ held = [t \in Threads |-> EmptyBag]

SharedStep(t) ==
    \/ \E p \in DOMAIN pools : TotalAllocs < MaxMgrAllocs /\ AllocateBufferLock(t, p)
    \/ \E s \in {1, MaxSize} : AllocateLock(t, s, 0)
    \/ AllocateFind(t)
    \/ ManagerAllocateBufferLock(t)
    \/ \E u \in DOMAIN buffers : Deallocate(t, u)
    \/ PoolReturnStep(t, Threads)

NextShared == \E t \in Threads : SharedStep(t)

SpecShared == InitShared /\ [][NextShared]_vars

----------------------------------------------------------------------------
\* Misuse of the reference-counting contract.  A PacketBuffer* is a raw
\* pointer: a caller that keeps it after its reference is gone (a stale
\* handle) can still call add_ref() and release() on the unit.  The calls
\* execute the same code; the caller neither owns a reference before nor
\* after them.  A handle is stale once the unit was handed out and its
\* ref_count has reached 0 (the model's pool has one unit, so the pool's
\* counters tell).

StaleHandle(u) ==
    /\ pools[u[1]].alloc_count_ >= 1
    /\ (buffers[u].ref_count_ <= 0 \/ pools[u[1]].dealloc_count_ >= 1)

\* add_ref() through a stale handle.
StaleAddRef(t, u) ==
    /\ thr[t].pc = "idle"
    /\ ~Holds(t, u)
    /\ StaleHandle(u)
    /\ buffers[u].ref_count_ < MaxRefs
    /\ pools[u[1]].dealloc_count_ < MaxAllocs
    /\ buffers' = [buffers EXCEPT ![u] = add_ref(@)]
    /\ UNCHANGED <<pools, numa_pools_, manager_mutex_, thr, held>>

\* release() through a stale handle: fetch_sub and the test of its value.
StaleRelease(t, u) ==
    /\ thr[t].pc = "idle"
    /\ ~Holds(t, u)
    /\ StaleHandle(u)
    /\ buffers[u].ref_count_ > 0 - MaxRefs
    /\ pools[u[1]].dealloc_count_ < MaxAllocs
    /\ LET r == fetch_sub(buffers[u])
       IN  /\ buffers' = [buffers EXCEPT ![u] = r.obj]
           /\ thr' = IF release_is_last(r.pre) /\ r.obj.owning_pool_ # NoPool
                         THEN [thr EXCEPT ![t].pc = "release_reset",
                                          ![t].pool = r.obj.owning_pool_,
                                          ![t].buffer = u]
                         ELSE thr
    /\ UNCHANGED <<pools, numa_pools_, manager_mutex_, held>>

\* A pool of one unit, so that every handle refers to the same unit.
MisuseConfig == [buffer_size |-> 2, initial_count |-> 1, headroom |-> 1, tailroom |-> 1]

InitMisuse == InitPool(DirectPool, MisuseConfig)

MisuseStep(t) ==
    \/ \E p \in DOMAIN pools : AllocateBufferLock(t, p)
    \/ AllocateBufferBack(t)
    \/ AllocateBufferPop(t)
    \/ AllocateBufferInit(t)
    \/ AllocateBufferReturn(t)
    \/ \E u \in DOMAIN buffers, t2 \in Threads :
           BagCardinality(held[t2]) < MaxRefs /\ AddRef(t, u, t2)
    \/ \E u \in DOMAIN buffers :
           pools[u[1]].dealloc_count_ < MaxAllocs /\ Release(t, u)
    \/ \E u \in DOMAIN buffers : StaleAddRef(t, u)
    \/ \E u \in DOMAIN buffers : StaleRelease(t, u)
    \/ ReleaseReset(t)
    \/ DeallocateBufferLock(t)
    \/ DeallocateBufferPush(t)

NextMisuse == \E t \in Threads : MisuseStep(t)

SpecMisuse == InitMisuse /\ [][NextMisuse]_vars

----------------------------------------------------------------------------
\* Properties.

Units(p) == {u \in DOMAIN buffers : u[1] = p}
RefCount(u) == buffers[u].ref_count_
FreeList(u) == pools[buffers[u].owning_pool_].free_list_
\* How often unit u occurs in its pool's free list.
FreeListCount(u) == Cardinality({i \in 1 .. Len(FreeList(u)) : FreeList(u)[i] = u})
InFreeList(u) == FreeListCount(u) > 0
Live(p) == {u \in Units(p) : RefCount(u) >= 1}

\* Thread t is inside release() of u, after the decrement that took
\* ref_count to 0 and before deallocate_buffer has pushed u.
HandingBack(t, u) ==
    thr[t].buffer = u /\ thr[t].pc \in {"release_reset", "dealloc_lock", "dealloc_push"}
\* Thread t is inside allocate_buffer() and has popped u.
TakingOut(t, u) == thr[t].buffer = u /\ thr[t].pc \in {"alloc_init", "alloc_count"}
\* No call on pool p is in progress.
PoolQuiet(p) == \A t \in Threads : thr[t].pc = "idle" \/ thr[t].pool # p

\* C1: whenever no allocate_buffer() or release() on a pool is in progress,
\* its free count plus the number of its units with ref_count >= 1 equals
\* the number of units it was constructed with.
C1_FreeCountConservation ==
    \A p \in DOMAIN pools :
        PoolQuiet(p) =>
            get_free_count(pools[p]) + Cardinality(Live(p)) = pools[p].initial_pool_count_

\* C1 witness: between calls, after units were allocated and one was handed
\* back, some units are live and some are free.
C1_Witness ==
    \E p \in DOMAIN pools :
        /\ PoolQuiet(p)
        /\ pools[p].dealloc_count_ >= 1
        /\ Live(p) # {}
        /\ get_free_count(pools[p]) >= 1

\* C2 as stated: in every reachable state a unit has ref_count 0 exactly
\* when it is in its pool's free list, the states inside release() and
\* allocate_buffer() included.
C2_Original ==
    \A u \in DOMAIN buffers :
        /\ (RefCount(u) = 0) <=> InFreeList(u)
        /\ RefCount(u) >= 1 => ~InFreeList(u)

\* Unit u is between release()'s decrement to 0 and the push, or between
\* allocate_buffer()'s pop and the setting of ref_count to 1.
InTransit(u) ==
    \E t \in Threads : HandingBack(t, u) \/ (thr[t].buffer = u /\ thr[t].pc = "alloc_init")

\* C2 amended: a unit with ref_count >= 1 is never in the free list; outside
\* the two windows a unit has ref_count 0 exactly when it is in the free
\* list; inside them it has ref_count 0 and is in no free list.
C2_RefCountExclusivity ==
    \A u \in DOMAIN buffers :
        /\ RefCount(u) >= 1 => ~InFreeList(u)
        /\ ~InTransit(u) => ((RefCount(u) = 0) <=> InFreeList(u))
        /\ InTransit(u) => RefCount(u) = 0 /\ ~InFreeList(u)

\* C2 witness: release() has taken ref_count to 0 and the unit is not yet pushed.
C2_Witness ==
    \E t \in Threads, u \in DOMAIN buffers :
        HandingBack(t, u) /\ RefCount(u) = 0 /\ ~InFreeList(u)

\* Every unit of the pool is handed out: referenced, or inside a release()
\* that has not returned yet.
AllHandedOut(p) ==
    \A u \in Units(p) : RefCount(u) >= 1 \/ \E t \in Threads : HandingBack(t, u)

\* C3: allocate_buffer() returns null exactly when every unit of the pool is
\* handed out and not yet returned: a pool of N units gives N successes in a
\* row, then null, and each completed release allows exactly one more success.
C3_Exhaustion ==
    [][\A t \in Threads :
          (thr[t].pc = "alloc_back" /\ thr'[t].pc # "alloc_back") =>
              ((thr'[t].pc = "idle") <=> AllHandedOut(thr[t].pool))]_vars

\* C3 witness: N units were allocated, one was released and allocated again,
\* and a further allocate_buffer() is about to find the free list empty.
C3_Witness ==
    \E t \in Threads :
        /\ thr[t].pc = "alloc_back"
        /\ pools[thr[t].pool].free_list_ = << >>
        /\ pools[thr[t].pool].alloc_count_ = pools[thr[t].pool].initial_pool_count_ + 1
        /\ pools[thr[t].pool].dealloc_count_ = 1

\* C4: however the holders' release() and add_ref() calls interleave, a unit
\* is handed back by one release() at a time, only once nobody holds a
\* reference any more (ref_count 0), and it ends up in the free list once.
C4_HandedBackOnce ==
    \A u \in DOMAIN buffers :
        /\ Cardinality({t \in Threads : HandingBack(t, u)}) <= 1
        /\ \A t \in Threads :
               HandingBack(t, u) =>
                   /\ RefCount(u) = 0
                   /\ \A t2 \in Threads : ~Holds(t2, u)
                   /\ ~InFreeList(u)
        /\ FreeListCount(u) <= 1
        /\ (RefCount(u) = 0 /\ ~InTransit(u)) => FreeListCount(u) = 1

\* C4 witness: two threads are inside the hand-back of release() at the same
\* time, one pushing under the pool's mutex and one waiting for it.
C4_Witness ==
    \E t1 \in Threads, t2 \in Threads :
        /\ t1 # t2
        /\ thr[t1].pc = "dealloc_push"
        /\ thr[t2].pc = "dealloc_lock"
        /\ pools[thr[t1].pool].alloc_count_ >= 2

\* Thread t is inside the critical section of pool p.
InCritical(t, p) ==
    /\ thr[t].pool = p
    /\ thr[t].pc \in {"alloc_back", "alloc_pop", "alloc_init", "alloc_count", "dealloc_push"}

\* Unit u is out of the pool: popped by an allocate_buffer() in progress,
\* referenced, or inside release().
IsOut(u) ==
    \/ RefCount(u) >= 1
    \/ \E t \in Threads : TakingOut(t, u) \/ HandingBack(t, u)

\* C5: at most one thread is inside a pool's critical section, no unit is
\* being handed out to two allocate_buffer() calls or to one while another
\* caller holds it, and the free list holds exactly the units that are not
\* out, each once.
C5_FreeListMutualExclusion ==
    /\ \A p \in DOMAIN pools : Cardinality({t \in Threads : InCritical(t, p)}) <= 1
    /\ \A u \in DOMAIN buffers :
           /\ Cardinality({t \in Threads :
                  thr[t].buffer = u
                  /\ thr[t].pc \in {"alloc_pop", "alloc_init", "alloc_count"}}) <= 1
           /\ (\E t \in Threads : TakingOut(t, u)) => \A t2 \in Threads : ~Holds(t2, u)
           /\ FreeListCount(u) = IF IsOut(u) THEN 0 ELSE 1

\* C5 witness: one thread is inside allocate_buffer()'s critical section
\* while another one waits to push a unit back.
C5_Witness ==
    \E t1 \in Threads, t2 \in Threads :
        /\ t1 # t2
        /\ thr[t1].pc = "alloc_pop"
        /\ thr[t2].pc = "dealloc_lock"
        /\ thr[t1].pool = thr[t2].pool

\* The window of b is where construction, allocate_buffer() and release() put it.
WindowReset(b) == b.data_ptr_ = b.buffer_start_ + b.headroom_ /\ b.data_len_ = 0

\* C6: for every buffer, after any sequence of set_data_len, reserve_headroom,
\* reserve_tailroom, allocate_buffer and release calls, the window lies inside
\* the region: region start <= data_ptr and data_ptr + data_len <= region end.
C6_WindowInRegion ==
    \A u \in DOMAIN buffers :
        /\ buffers[u].buffer_start_ <= buffers[u].data_ptr_
        /\ buffers[u].data_ptr_ + buffers[u].data_len_
               <= buffers[u].buffer_start_ + buffers[u].total_allocated_size_

\* C6 witness: a buffer in use whose window was grown until it fills the
\* whole region (no dynamic headroom and no dynamic tailroom left).
C6_Witness ==
    \E u \in DOMAIN buffers :
        /\ Holds(User, u)
        /\ buffers[u].data_ptr_ = buffers[u].buffer_start_
        /\ buffers[u].data_len_ = buffers[u].total_allocated_size_
        /\ pools[u[1]].dealloc_count_ >= 1

\* C7: a successful allocate_buffer() removes exactly one unit, the one it
\* returns, from the free list, and returns it with ref_count 1, lifecycle
\* state Allocated, the window reset (data_ptr at region start + configured
\* headroom, data_len 0) and the allocation counter one higher.
C7_AllocatePostcondition ==
    [][\A t \in Threads, p \in DOMAIN pools, u \in DOMAIN buffers :
          (thr[t].pool = p /\ thr[t].buffer = u) =>
              /\ (thr[t].pc = "alloc_pop" /\ thr'[t].pc = "alloc_init") =>
                     /\ pools[p].free_list_ = Append(pools'[p].free_list_, u)
                     /\ ~InFreeList(u)'
              /\ (thr[t].pc = "alloc_count" /\ thr'[t].pc = "idle") =>
                     /\ Holds(t, u)'
                     /\ buffers'[u].ref_count_ = 1
                     /\ buffers'[u].current_state_ = "Allocated"
                     /\ WindowReset(buffers'[u])
                     /\ pools'[p].alloc_count_ = pools[p].alloc_count_ + 1
                     /\ pools'[p].free_list_ = pools[p].free_list_
                     /\ ~InFreeList(u)']_vars

\* C7 witness: allocate_buffer() is about to return a unit that was handed
\* out and released before.
C7_Witness ==
    /\ thr[User].pc = "alloc_count"
    /\ thr[User].buffer = <<DirectPool, BufferConfig.initial_count>>
    /\ pools[DirectPool].dealloc_count_ >= 1
    /\ pools[DirectPool].alloc_count_ >= 1
    /\ held[User] = EmptyBag

\* Units of p that some release() is handing back.
BeingHandedBack(p) == {u \in Units(p) : \E t \in Threads : HandingBack(t, u)}

\* C8: a release() that takes ref_count from 1 to 0 on a buffer with an
\* owning pool resets the window and the chain link and calls the owning
\* pool's deallocate_buffer once with this unit; the reset is done before the
\* unit is in the free list.
C8_LastReleaseHandsBack ==
    /\ [](\A t \in Threads :
             thr[t].pc \in {"dealloc_lock", "dealloc_push"} =>
                 /\ WindowReset(buffers[thr[t].buffer])
                 /\ buffers[thr[t].buffer].next_ = NullBuffer
                 /\ thr[t].pool = buffers[thr[t].buffer].owning_pool_)
    /\ [](\A u \in DOMAIN buffers :
             InFreeList(u) => WindowReset(buffers[u]) /\ buffers[u].next_ = NullBuffer)
    /\ [](\A p \in DOMAIN pools :
             pools[p].alloc_count_
                 + Cardinality({t \in Threads : thr[t].pool = p /\ thr[t].pc = "alloc_count"})
             = Cardinality(Live(p)) + Cardinality(BeingHandedBack(p))
                 + pools[p].dealloc_count_)
    /\ [][\A t \in Threads :
             /\ \A u \in DOMAIN buffers :
                    (held'[t] # held[t] /\ RefCount(u) = 1 /\ RefCount(u)' = 0) =>
                        /\ thr'[t].pc = "release_reset"
                        /\ thr'[t].buffer = u
                        /\ thr'[t].pool = buffers[u].owning_pool_
             /\ (thr[t].pc = "release_reset" /\ thr'[t] # thr[t]) =>
                    /\ thr'[t] = [thr[t] EXCEPT !.pc = "dealloc_lock"]
                    /\ WindowReset(buffers'[thr[t].buffer])
                    /\ buffers'[thr[t].buffer].next_ = NullBuffer
                    /\ pools' = pools
             /\ (thr[t].pc = "dealloc_push" /\ thr'[t].pc = "idle") =>
                    /\ pools'[thr[t].pool].free_list_
                           = Append(pools[thr[t].pool].free_list_, thr[t].buffer)
                    /\ pools'[thr[t].pool].dealloc_count_
                           = pools[thr[t].pool].dealloc_count_ + 1]_vars

\* C8 witness: the last reference of a buffer with a moved window, data in
\* it and a chain link has just been released.
C8_Witness ==
    \E u \in DOMAIN buffers :
        /\ thr[User].pc = "release_reset"
        /\ thr[User].buffer = u
        /\ RefCount(u) = 0
        /\ buffers[u].data_ptr_ # buffers[u].buffer_start_ + buffers[u].headroom_
        /\ buffers[u].data_len_ > 0
        /\ buffers[u].next_ # NullBuffer

\* The pools registered for node n whose size class is at least size.
Sufficient(n, size) ==
    IF n \in DOMAIN numa_pools_
        THEN {numa_pools_[n][k] : k \in {x \in DOMAIN numa_pools_[n] : x >= size}}
        ELSE {}

\* The pool of the smallest size class in the set S of pools.
BestFit(S) ==
    CHOOSE p \in S :
        \A q \in S : pools[p].buffer_payload_size_ <= pools[q].buffer_payload_size_

\* Thread t is inside PoolManager::allocate, past find_pool, with a pool.
Selected(t) ==
    /\ thr[t].size > 0
    /\ thr[t].pc \in {"allocate_buffer", "alloc_back", "alloc_pop", "alloc_init", "alloc_count"}

\* C9: when pools of the requested affinity have a size class >= size,
\* PoolManager::allocate selects among them the one of the smallest size
\* class; a buffer it returns has capacity() >= size.
C9_BestFitInAffinity ==
    /\ [][\A t \in Threads :
             (thr[t].pc = "find_pool" /\ thr'[t].pc # "find_pool"
              /\ Sufficient(thr[t].node, thr[t].size) # {}) =>
                 /\ thr'[t].pc = "allocate_buffer"
                 /\ thr'[t].pool \in Sufficient(thr[t].node, thr[t].size)
                 /\ \A q \in Sufficient(thr[t].node, thr[t].size) :
                        pools[thr'[t].pool].buffer_payload_size_
                            <= pools[q].buffer_payload_size_]_vars
    /\ [](\A t \in Threads :
             (Selected(t) /\ thr[t].pc \in {"alloc_pop", "alloc_init", "alloc_count"}) =>
                 capacity(buffers[thr[t].buffer]) >= thr[t].size)

\* C9 witness: the requested affinity has two sufficient pools and the
\* buffer about to be returned comes from the one of the smaller size class.
C9_Witness ==
    \E t \in Threads :
        /\ thr[t].pc = "alloc_count"
        /\ thr[t].size > 0
        /\ Cardinality(Sufficient(thr[t].node, thr[t].size)) >= 2
        /\ thr[t].pool = BestFit(Sufficient(thr[t].node, thr[t].size))
        /\ capacity(buffers[thr[t].buffer]) = thr[t].size

\* C10: the pool PoolManager::allocate selects is of the requested affinity
\* whenever that affinity has a sufficient pool, whatever the global tier
\* holds; it is the best fit of the global tier exactly when the affinity is
\* not -1 and has no sufficient pool; and there is none otherwise.
C10_GlobalFallback ==
    [][\A t \in Threads :
          (thr[t].pc = "find_pool" /\ thr'[t].pc # "find_pool") =>
              LET own == Sufficient(thr[t].node, thr[t].size)
                  glob == Sufficient(GlobalNode, thr[t].size)
                  selected == IF thr'[t].pc = "allocate_buffer" THEN thr'[t].pool ELSE NoPool
              IN  /\ own # {} => selected = BestFit(own)
                  /\ (own = {} /\ thr[t].node # GlobalNode /\ glob # {}) =>
                         selected = BestFit(glob)
                  /\ (own = {} /\ (thr[t].node = GlobalNode \/ glob = {})) =>
                         selected = NoPool
                  /\ (selected # NoPool /\ pools[selected].numa_node_ # thr[t].node) =>
                         (thr[t].node # GlobalNode /\ own = {}
                          /\ pools[selected].numa_node_ = GlobalNode)]_vars

\* C10 witness: the requested affinity has pools, none of them sufficient,
\* and the request is served by the global tier's best fit.
C10_Witness ==
    \E t \in Threads :
        /\ thr[t].pc = "allocate_buffer"
        /\ thr[t].node # GlobalNode
        /\ thr[t].node \in DOMAIN numa_pools_
        /\ DOMAIN numa_pools_[thr[t].node] # {}
        /\ Sufficient(thr[t].node, thr[t].size) = {}
        /\ pools[thr[t].pool].numa_node_ = GlobalNode
        /\ Cardinality(Sufficient(GlobalNode, thr[t].size)) >= 1

\* Both configure calls of the scenario are complete.
ScenarioRegistered ==
    /\ 0 \in DOMAIN numa_pools_
    /\ GlobalNode \in DOMAIN numa_pools_
    /\ DOMAIN numa_pools_[0] = {128, 512, 1024}
    /\ DOMAIN numa_pools_[GlobalNode] = {1024}

\* C11 as stated: with {128, 512, 1024} on node 0 and {1024} on the global
\* tier, allocate(100, 0) returns capacity >= 128 with affinity 0 and
\* allocate(600, 0) returns capacity >= 1024 with affinity -1.
C11_Original ==
    \A t \in Threads :
        (ScenarioRegistered /\ thr[t].pc = "alloc_count" /\ thr[t].node = 0) =>
            /\ thr[t].size = 100 =>
                   /\ capacity(buffers[thr[t].buffer]) >= 128
                   /\ buffers[thr[t].buffer].numa_node_ = 0
            /\ thr[t].size = 600 =>
                   /\ capacity(buffers[thr[t].buffer]) >= 1024
                   /\ buffers[thr[t].buffer].numa_node_ = GlobalNode

\* C11 amended: in that registry allocate(100, 0) is served by node 0's
\* 128 pool and allocate(600, 0) by node 0's own 1024 pool: the buffer
\* returned has capacity >= 1024 and affinity 0, not -1.
C11_SizeClassScenario ==
    /\ [][\A t \in Threads :
             (ScenarioRegistered /\ thr[t].pc = "find_pool" /\ thr'[t].pc # "find_pool"
              /\ thr[t].node = 0 /\ thr[t].size \in {100, 600}) =>
                 /\ thr'[t].pc = "allocate_buffer"
                 /\ thr'[t].pool = numa_pools_[0][IF thr[t].size = 100 THEN 128 ELSE 1024]]_vars
    /\ [](\A t \in Threads :
             (ScenarioRegistered /\ thr[t].pc = "alloc_count" /\ thr[t].node = 0) =>
                 /\ thr[t].size = 100 =>
                        /\ capacity(buffers[thr[t].buffer]) >= 128
                        /\ buffers[thr[t].buffer].numa_node_ = 0
                 /\ thr[t].size = 600 =>
                        /\ capacity(buffers[thr[t].buffer]) >= 1024
                        /\ buffers[thr[t].buffer].numa_node_ = 0)

\* C11 witness: the buffer of allocate(100, 0) is held and allocate(600, 0)
\* is about to return a unit of node 0's 1024 pool.
C11_Witness ==
    \E t \in Threads :
        /\ ScenarioRegistered
        /\ thr[t].pc = "alloc_count"
        /\ thr[t].node = 0
        /\ thr[t].size = 600
        /\ thr[t].buffer = <<<<0, 1024>>, 1>>
        /\ Holds(t, <<<<0, 128>>, 1>>)
        /\ get_free_count(pools[<<GlobalNode, 1024>>]) = 1

\* C12: when neither the requested affinity nor (for an affinity other than
\* -1) the global tier has a pool of size class >= size, PoolManager::allocate
\* returns null and changes no pool, unit or reference; a pool it selects is
\* of the requested affinity or of the global tier, and of the global tier
\* only when the request's affinity is -1.
C12_NoMatchingPool ==
    [][\A t \in Threads :
          (thr[t].pc = "find_pool" /\ thr'[t].pc # "find_pool") =>
              /\ (/\ Sufficient(thr[t].node, thr[t].size) = {}
                  /\ (thr[t].node = GlobalNode \/ Sufficient(GlobalNode, thr[t].size) = {})) =>
                     /\ thr'[t] = Idle
                     /\ UNCHANGED <<pools, buffers, numa_pools_, held>>
              /\ thr'[t].pc = "allocate_buffer" =>
                     /\ pools[thr'[t].pool].numa_node_ \in {thr[t].node, GlobalNode}
                     /\ pools[thr'[t].pool].buffer_payload_size_ >= thr[t].size]_vars

\* C12 witness: a request with affinity -1 is being looked up while only a
\* pool of a specific affinity is large enough for it, and a buffer of
\* another request is held.
C12_Witness ==
    \E t \in Threads :
        /\ thr[t].pc = "find_pool"
        /\ thr[t].node = GlobalNode
        /\ Sufficient(GlobalNode, thr[t].size) = {}
        /\ GlobalNode \in DOMAIN numa_pools_
        /\ DOMAIN numa_pools_[GlobalNode] # {}
        /\ Sufficient(0, thr[t].size) # {}
        /\ held[t] # EmptyBag

\* The pool the selection policy names for a request: the best fit of the
\* affinity, else (affinity other than -1) the best fit of the global tier.
PolicyPool(n, size) ==
    IF Sufficient(n, size) # {} THEN BestFit(Sufficient(n, size))
    ELSE IF n # GlobalNode /\ Sufficient(GlobalNode, size) # {}
        THEN BestFit(Sufficient(GlobalNode, size))
    ELSE NoPool

\* C13: PoolManager::allocate calls allocate_buffer on the pool the policy
\* names also when that pool's free list is empty; it then returns null, and
\* no other pool is popped or counted: during the call only the selected
\* pool is touched.
C13_ExhaustedNoFallback ==
    [][\A t \in Threads :
          /\ (/\ thr[t].pc = "find_pool" /\ thr'[t].pc # "find_pool"
              /\ PolicyPool(thr[t].node, thr[t].size) # NoPool
              /\ pools[PolicyPool(thr[t].node, thr[t].size)].free_list_ = << >>) =>
                 /\ thr'[t].pc = "allocate_buffer"
                 /\ thr'[t].pool = PolicyPool(thr[t].node, thr[t].size)
          /\ (Selected(t) /\ thr'[t].pc # "idle") => thr'[t].pool = thr[t].pool
          /\ Selected(t) =>
                 \A p \in DOMAIN pools :
                     p # thr[t].pool => pools'[p] = pools[p]
          /\ (/\ Selected(t) /\ thr[t].pc = "alloc_back"
              /\ pools[thr[t].pool].free_list_ = << >>) =>
                 /\ thr'[t] = Idle
                 /\ UNCHANGED <<buffers, numa_pools_, held>>
                 /\ \A p \in DOMAIN pools :
                        /\ pools'[p].free_list_ = pools[p].free_list_
                        /\ pools'[p].alloc_count_ = pools[p].alloc_count_
                        /\ pools'[p].dealloc_count_ = pools[p].dealloc_count_]_vars

\* C13 witness: the selected pool is found empty while a larger size class
\* of the same affinity and a pool of the global tier have free units.
C13_Witness ==
    \E t \in Threads :
        /\ Selected(t)
        /\ thr[t].pc = "alloc_back"
        /\ thr[t].node # GlobalNode
        /\ pools[thr[t].pool].free_list_ = << >>
        /\ \E q \in Sufficient(thr[t].node, thr[t].size) :
               q # thr[t].pool /\ pools[q].free_list_ # << >>
        /\ \E g \in Sufficient(GlobalNode, thr[t].size) : pools[g].free_list_ # << >>

\* C14: set_data_len(capacity() + 1) on a freshly allocated buffer (window
\* at region start + configured headroom, length 0) leaves
\* data_len() = capacity(), never a larger length.
C14_ClampLaw ==
    [][\A u \in DOMAIN buffers :
          (/\ WindowReset(buffers[u])
           /\ SetDataLen(User, u, capacity(buffers[u]) + 1)) =>
              buffers'[u].data_len_ = capacity(buffers[u])]_vars

\* Dynamic headroom and tailroom of b, and the end of its region.
RegionEnd(b) == b.buffer_start_ + b.total_allocated_size_
DynamicHeadroom(b) == b.data_ptr_ - b.buffer_start_
DynamicTailroom(b) == RegionEnd(b) - (b.data_ptr_ + b.data_len_)
MinOf(a, b) == IF a <= b THEN a ELSE b

\* The units the user holds a reference to.
HeldUnits == {u \in DOMAIN buffers : Holds(User, u)}

C16_ReserveHeadroomSuccess ==
    /\ [](\A u \in HeldUnits, n \in Lengths :
             n <= DynamicHeadroom(buffers[u]) =>
                 /\ reserve_headroom(buffers[u], n).ret = buffers[u].data_ptr_ - n
                 /\ reserve_headroom(buffers[u], n).ret # nullptr
                 /\ reserve_headroom(buffers[u], n).ret
                        = reserve_headroom(buffers[u], n).obj.data_ptr_)
    /\ [][\A u \in DOMAIN buffers, n \in Lengths :
             (ReserveHeadroom(User, u, n) /\ n <= DynamicHeadroom(buffers[u])) =>
                 /\ buffers'[u] = [buffers[u] EXCEPT !.data_ptr_ = @ - n,
                                                     !.data_len_ = @ + n]
                 /\ buffers'[u].data_ptr_ + buffers'[u].data_len_
                        = buffers[u].data_ptr_ + buffers[u].data_len_]_vars

\* C16 witness: the whole headroom of a buffer holding data was reserved,
\* and the window now ends past the payload's end.
C16_Witness ==
    \E u \in HeldUnits :
        /\ buffers[u].headroom_ >= 1
        /\ buffers[u].data_ptr_ = buffers[u].buffer_start_
        /\ buffers[u].data_len_ = buffers[u].headroom_ + capacity(buffers[u]) + 1
        /\ buffers[u].next_ = NullBuffer

\* C17: reserve_headroom(n) with n > data_ptr - region start and
\* reserve_tailroom(n) with n > region end - (data_ptr + data_len) return
\* null and leave the buffer as it was.
C17_ReserveFailure ==
    /\ [](\A u \in HeldUnits, n \in Lengths :
             /\ n > DynamicHeadroom(buffers[u]) =>
                    reserve_headroom(buffers[u], n) = [obj |-> buffers[u], ret |-> nullptr]
             /\ n > DynamicTailroom(buffers[u]) =>
                    reserve_tailroom(buffers[u], n) = [obj |-> buffers[u], ret |-> nullptr])
    /\ [][\A u \in DOMAIN buffers, n \in Lengths :
             /\ (ReserveHeadroom(User, u, n) /\ n > DynamicHeadroom(buffers[u])) =>
                    UNCHANGED vars
             /\ (ReserveTailroom(User, u, n) /\ n > DynamicTailroom(buffers[u])) =>
                    UNCHANGED vars]_vars

\* C17 witness: a chained buffer with two references, no dynamic headroom
\* and one byte of dynamic tailroom left: larger reservations do not fit.
C17_Witness ==
    \E u \in HeldUnits :
        /\ DynamicHeadroom(buffers[u]) = 0
        /\ DynamicTailroom(buffers[u]) = 1
        /\ buffers[u].ref_count_ = 2
        /\ buffers[u].next_ # NullBuffer

\* C18: reserve_tailroom(n) with n <= region end - (data_ptr + data_len)
\* grows data_len by n, leaves data_ptr alone, and returns the old window end.
C18_ReserveTailroomSuccess ==
    /\ [](\A u \in HeldUnits, n \in Lengths :
             n <= DynamicTailroom(buffers[u]) =>
                 reserve_tailroom(buffers[u], n).ret
                     = buffers[u].data_ptr_ + buffers[u].data_len_)
    /\ [][\A u \in DOMAIN buffers, n \in Lengths :
             (ReserveTailroom(User, u, n) /\ n <= DynamicTailroom(buffers[u])) =>
                 buffers'[u] = [buffers[u] EXCEPT !.data_len_ = @ + n]]_vars

\* C18 witness: the window of a buffer starts where allocation put it and
\* was grown through the payload into the whole configured tailroom.
C18_Witness ==
    \E u \in HeldUnits :
        /\ buffers[u].tailroom_ >= 1
        /\ buffers[u].data_ptr_ = buffers[u].buffer_start_ + buffers[u].headroom_
        /\ DynamicTailroom(buffers[u]) = 0
        /\ buffers[u].current_state_ = "Allocated"

\* Unit u as its first allocate_buffer() returned it: constructed by its
\* pool's constructor, then initialised by allocate_buffer().
FirstAllocation(u) ==
    LET pool == pools[u[1]]
    IN  allocate_buffer_init(
            PacketBufferPool(u[1], pool.buffer_payload_size_, pool.initial_pool_count_,
                             pool.numa_node_, pool.headroom_size_,
                             pool.tailroom_size_).units[u])

\* C19: whatever reserve_headroom, reserve_tailroom, set_data_len and
\* set_next_buffer calls were made on a unit, when allocate_buffer() returns
\* it again after its last release() the unit is as on its first allocation:
\* data_ptr, data_len and next have their first values and the whole
\* configured headroom is available.
C19_RoundTripReset ==
    \A t \in Threads :
        thr[t].pc = "alloc_count" =>
            /\ buffers[thr[t].buffer] = FirstAllocation(thr[t].buffer)
            /\ buffers[thr[t].buffer].next_ = NullBuffer
            /\ buffers[thr[t].buffer].data_len_ = 0
            /\ DynamicHeadroom(buffers[thr[t].buffer]) = buffers[thr[t].buffer].headroom_

\* C19 witness: a unit that was used and released is about to be returned
\* again, while the other unit is in use with a moved window, data and a
\* chain link to the unit being returned.
C19_Witness ==
    \E u \in HeldUnits :
        /\ thr[User].pc = "alloc_count"
        /\ pools[u[1]].dealloc_count_ >= 1
        /\ thr[User].buffer = <<DirectPool, BufferConfig.initial_count>>
        /\ buffers[u].next_ = thr[User].buffer
        /\ DynamicHeadroom(buffers[u]) = 0
        /\ buffers[u].data_len_ >= 1

\* The fields of a unit that are set by its constructor only.
Immutables(b) ==
    <<b.owning_pool_, b.numa_node_, b.headroom_, b.tailroom_, b.buffer_start_,
      b.total_allocated_size_>>

C21_EmptyAllocate ==
    [][\A t \in Threads, p \in DOMAIN pools :
          (/\ thr[t].pc = "alloc_back"
           /\ thr[t].pool = p
           /\ pools[p].free_list_ = << >>
           /\ thr'[t] # thr[t]) =>
              /\ thr'[t].pc = "idle"
              /\ thr'[t].buffer = NullBuffer
              /\ held' = held
              /\ buffers' = buffers
              /\ pools'[p].alloc_count_ = pools[p].alloc_count_
              /\ pools'[p].dealloc_count_ = pools[p].dealloc_count_
              /\ pools'[p].free_list_ = << >>
              /\ get_free_count(pools'[p]) = 0
              /\ pools' = [pools EXCEPT ![p].list_mutex_ = NoThread]]_vars

\* C21 witness: a pool of N units has handed out all N in a row, one of them
\* is shared by two references, and a further allocate_buffer() is at the
\* test of the empty free list.
C21_Witness ==
    \E t \in Threads, u \in DOMAIN buffers :
        /\ thr[t].pc = "alloc_back"
        /\ pools[thr[t].pool].free_list_ = << >>
        /\ pools[thr[t].pool].alloc_count_ = pools[thr[t].pool].initial_pool_count_
        /\ pools[thr[t].pool].dealloc_count_ = 0
        /\ u[1] = thr[t].pool
        /\ RefCount(u) = 2

\* C22: release() on a buffer whose ref_count before the decrement is >= 2
\* only decrements ref_count by 1: data_ptr, data_len, next and the attached
\* record are unchanged, the caller does not enter the hand-back (no
\* deallocate_buffer call), and the pool's free list and counters are unchanged.
C22_NonLastRelease ==
    [][\A u \in DOMAIN buffers :
          (RefCount(u) >= 2 /\ RefCount(u)' < RefCount(u)) =>
              /\ buffers' = [buffers EXCEPT ![u].ref_count_ = @ - 1]
              /\ buffers'[u].data_ptr_ = buffers[u].data_ptr_
              /\ buffers'[u].data_len_ = buffers[u].data_len_
              /\ buffers'[u].next_ = buffers[u].next_
              /\ buffers'[u].current_state_ = buffers[u].current_state_
              /\ \A t \in Threads : thr'[t].pc = "idle"
              /\ thr' = thr
              /\ pools' = pools]_vars

\* C22 witness: a buffer with two references, a moved window, data in it
\* and a chain link, held by a caller that is free to release one of them.
C22_Witness ==
    \E u \in DOMAIN buffers :
        /\ thr[User].pc = "idle"
        /\ CopiesIn(u, held[User]) = 2
        /\ RefCount(u) = 2
        /\ buffers[u].data_ptr_ # buffers[u].buffer_start_ + buffers[u].headroom_
        /\ buffers[u].data_len_ > 0
        /\ buffers[u].next_ # NullBuffer

\* C23: a unit that is in its pool's free list has lifecycle state Free, right
\* after pool construction as well as after the last release() has handed it
\* back, and the unit allocate_buffer() returns has state Allocated when the
\* call returns.
C23_LifecycleState ==
    /\ [](\A u \in DOMAIN buffers :
             InFreeList(u) => buffers[u].current_state_ = "Free")
    /\ [][\A t \in Threads, u \in DOMAIN buffers :
             (thr[t].pc = "alloc_count" /\ thr[t].buffer = u /\ thr'[t].pc = "idle") =>
                 buffers'[u].current_state_ = "Allocated"]_vars

\* C23 witness: every unit was handed out and the units came back in the
\* other order, so the free list holds them in reverse construction order;
\* no call is in progress.
C23_Witness ==
    /\ PoolQuiet(DirectPool)
    /\ get_free_count(pools[DirectPool]) = pools[DirectPool].initial_pool_count_
    /\ pools[DirectPool].free_list_[1] # <<DirectPool, 1>>
    /\ pools[DirectPool].dealloc_count_ >= 2

\* The units in the free list of pool p.
FreeUnits(p) == {pools[p].free_list_[i] : i \in 1 .. Len(pools[p].free_list_)}

\* C24: with several pools registered, a unit is only ever pushed onto the
\* free list of the pool that constructed it, whichever thread performs the
\* last release() and whichever pool or manager call allocated it: a release()
\* hands the unit to its own pool, and each pool's free list is a subset of
\* that pool's units.
C24_OwnPoolReturn ==
    /\ \A p \in DOMAIN pools :
           /\ FreeUnits(p) \subseteq Units(p)
           /\ \A u \in FreeUnits(p) : buffers[u].owning_pool_ = p
    /\ \A t \in Threads, u \in DOMAIN buffers :
           HandingBack(t, u) => thr[t].pool = u[1]

\* C24 witness: a thread that holds a buffer of one pool is about to push a
\* buffer of the other pool onto a free list, while both pools' free lists
\* are empty.
C24_Witness ==
    \E t \in Threads, u \in DOMAIN buffers, v \in DOMAIN buffers :
        /\ u[1] # v[1]
        /\ Holds(t, v)
        /\ thr[t].pc = "dealloc_push"
        /\ thr[t].buffer = u
        /\ FreeUnits(u[1]) = {}
        /\ FreeUnits(v[1]) = {}

\* C25: ref_count is a non-negative integer in every reachable state, for
\* every sequence of allocate_buffer, add_ref and release calls, a release()
\* on a unit whose ref_count has already reached 0 included: such a release
\* does not take ref_count below 0.
C25_RefCountNonNegative ==
    \A u \in DOMAIN buffers : RefCount(u) >= 0

\* C26: for every sequence of allocate_buffer, add_ref and release calls,
\* release() and add_ref() through a stale handle included, the free list is
\* not corrupted: no unit is in the free list more than once, free_count never
\* exceeds the pool's total unit count, and allocate_buffer() never returns a
\* unit that a holder still has.
C26_FreeListIntact ==
    /\ [](\A u \in DOMAIN buffers : FreeListCount(u) <= 1)
    /\ [](\A p \in DOMAIN pools :
             get_free_count(pools[p]) <= pools[p].initial_pool_count_)
    /\ [][\A t \in Threads, u \in DOMAIN buffers :
             (thr[t].pc = "alloc_count" /\ thr[t].buffer = u /\ thr'[t].pc = "idle") =>
                 \A t2 \in Threads : ~Holds(t2, u)]_vars

\* Thread t executes a whole registration call in this step.
RegistrationCall(t) == thr[t].pc = "idle" /\ thr'[t].pc = "configure_return"

\* The pair (n, size) is registered.
Registered(n, size) == n \in DOMAIN numa_pools_ /\ size \in DOMAIN numa_pools_[n]

\* C27: registering a config for an (affinity, size class) pair that is
\* already registered is a no-op on the registry: the pair still maps to the
\* pool first registered, with the unit count, headroom and tailroom, the free
\* list, the counters and the buffers it had, and the buffers allocated from
\* it keep it as owning pool, so that release() returns them to it.
C27_DuplicateRegistrationNoOp ==
    /\ [][\A t \in Threads, n \in ConfigNodes, c \in RegisterConfigs :
             (/\ RegistrationCall(t)
              /\ thr'[t].node = n
              /\ \E i \in 1 .. Len(thr'[t].configs) : thr'[t].configs[i] = c
              /\ Registered(n, c.buffer_size)) =>
                 /\ numa_pools_'[n][c.buffer_size] = numa_pools_[n][c.buffer_size]
                 /\ pools'[<<n, c.buffer_size>>] = pools[<<n, c.buffer_size>>]
                 /\ \A u \in DOMAIN buffers :
                        u[1] = <<n, c.buffer_size>> =>
                            u \in DOMAIN buffers' /\ buffers'[u] = buffers[u]
                 /\ \A u \in DOMAIN buffers' : u[1] = <<n, c.buffer_size>> => u \in DOMAIN buffers
                 /\ held' = held]_vars
    /\ [](\A u \in DOMAIN buffers :
             /\ buffers[u].owning_pool_ = u[1]
             /\ Registered(u[1][1], u[1][2])
             /\ numa_pools_[u[1][1]][u[1][2]] = u[1]
             /\ \A t \in Threads : HandingBack(t, u) => thr[t].pool = u[1])

\* C27 witness: a registration call has returned whose list names a pair that
\* is registered with another unit count, headroom and tailroom and has a
\* buffer in use and a buffer used before.
C27_Witness ==
    \E t \in Threads, c \in RegisterConfigs :
        /\ thr[t].pc = "configure_return"
        /\ \E i \in 1 .. Len(thr[t].configs) : thr[t].configs[i] = c
        /\ Registered(thr[t].node, c.buffer_size)
        /\ LET pool == pools[<<thr[t].node, c.buffer_size>>]
           IN  /\ pool.initial_pool_count_ # c.initial_count
               /\ pool.headroom_size_ # c.headroom
               /\ pool.tailroom_size_ # c.tailroom
               /\ pool.dealloc_count_ >= 1
               /\ Live(<<thr[t].node, c.buffer_size>>) # {}

\* The lists of configs passed to registration calls.
RegisterLists ==
    {<<c>> : c \in RegisterConfigs}
        \cup {<<c1, c2>> : c1 \in RegisterConfigs, c2 \in RegisterConfigs}

\* C28 as stated: a registration call for an already-registered pair reports
\* the conflict to the caller: an add_pool call that creates the pool returns
\* true, and one whose pair is already registered returns another value.
C28_Original ==
    [][\A t \in Threads, n \in ConfigNodes, c \in RegisterConfigs :
          (RegistrationCall(t) /\ thr'[t].node = n /\ thr'[t].configs = <<c>>) =>
              /\ (~Registered(n, c.buffer_size) /\ Registered(n, c.buffer_size)') =>
                     thr'[t].ret = TRUE
              /\ Registered(n, c.buffer_size) => thr'[t].ret # TRUE]_vars

\* C28 amended: the value a registration call returns does not tell a
\* conflict from a creation: a call whose pairs are all registered already
\* returns true, as a call that creates its pools does; a call returns true
\* exactly when every pair of its list is registered when it returns, and
\* false only when a construction failed.
C28_ConflictReturnsTrue ==
    [][\A t \in Threads, n \in ConfigNodes, L \in RegisterLists :
          (RegistrationCall(t) /\ thr'[t].node = n /\ thr'[t].configs = L) =>
              /\ (\A i \in 1 .. Len(L) : Registered(n, L[i].buffer_size)) =>
                     thr'[t].ret = TRUE
              /\ thr'[t].ret = TRUE <=>
                     \A i \in 1 .. Len(L) : Registered(n, L[i].buffer_size)']_vars

\* C28 witness: add_pool has returned true for a pair that was registered
\* before the call (its pool has other parameters than the config and has
\* served an allocation).
C28_Witness ==
    \E t \in Threads, c \in RegisterConfigs :
        /\ thr[t].pc = "configure_return"
        /\ thr[t].configs = <<c>>
        /\ thr[t].ret = TRUE
        /\ Registered(thr[t].node, c.buffer_size)
        /\ pools[<<thr[t].node, c.buffer_size>>].initial_pool_count_ # c.initial_count
        /\ pools[<<thr[t].node, c.buffer_size>>].alloc_count_ >= 1

\* Pool p is a completely constructed pool: it has all its units, each with
\* the pool as owner, and every unit is free, live or inside a call.
Constructed(p) ==
    /\ p \in DOMAIN pools
    /\ Cardinality(Units(p)) = pools[p].initial_pool_count_
    /\ pools[p].initial_pool_count_ >= 1
    /\ \A u \in Units(p) : buffers[u].owning_pool_ = p

\* C29: when the construction of a pool fails during a registration call, the
\* call returns false and nothing, in particular no partially initialized
\* pool, is stored under that (affinity, size class) key: every registered
\* pool is completely constructed, so a later allocate selects only such pools.
C29_ConstructionFailure ==
    /\ [][\A t \in Threads, n \in ConfigNodes, L \in RegisterLists :
             (RegistrationCall(t) /\ thr'[t].node = n /\ thr'[t].configs = L) =>
                 /\ thr'[t].ret = FALSE <=>
                        \E i \in 1 .. Len(L) : ~Registered(n, L[i].buffer_size)'
                 /\ thr'[t].ret = FALSE =>
                        \E i \in 1 .. Len(L) :
                            /\ ~Registered(n, L[i].buffer_size)'
                            /\ <<n, L[i].buffer_size>> \notin DOMAIN pools'
                            /\ \A u \in DOMAIN buffers' : u[1] # <<n, L[i].buffer_size>>]_vars
    /\ [](\A n \in DOMAIN numa_pools_ :
             \A k \in DOMAIN numa_pools_[n] :
                 /\ numa_pools_[n][k] = <<n, k>>
                 /\ Constructed(numa_pools_[n][k])
                 /\ pools[numa_pools_[n][k]].buffer_payload_size_ = k)
    /\ [](\A t \in Threads : Selected(t) => Constructed(thr[t].pool))

\* C29 witness: a registration call with two configs has returned false: the
\* pair of its second config is not registered and has no pool, the pair of
\* its first config is registered, and a buffer allocated earlier is in use.
C29_Witness ==
    \E t \in Threads, c1 \in RegisterConfigs, c2 \in RegisterConfigs :
        /\ thr[t].pc = "configure_return"
        /\ thr[t].ret = FALSE
        /\ thr[t].configs = <<c1, c2>>
        /\ Registered(thr[t].node, c1.buffer_size)
        /\ ~Registered(thr[t].node, c2.buffer_size)
        /\ <<thr[t].node, c2.buffer_size>> \notin DOMAIN pools
        /\ \E u \in DOMAIN buffers : Holds(t, u)

\* C30: PoolManager::deallocate(buffer) has exactly the effect of one
\* buffer->release(): the step is a step release() makes from the same state,
\* ref_count drops by exactly 1, the caller enters the hand-back to the owning
\* pool only if that was the last reference, and nothing else of the buffers,
\* the pools or the registry changes; deallocate(null) changes nothing.
C30_DeallocateIsRelease ==
    [][\A t \in Threads :
          /\ \A u \in DOMAIN buffers :
                 Deallocate(t, u) =>
                     /\ Release(t, u)
                     /\ buffers' = [buffers EXCEPT ![u].ref_count_ = @ - 1]
                     /\ held'[t] = held[t] (-) SetToBag({u})
                     /\ thr' = IF RefCount(u) = 1
                                   THEN [thr EXCEPT ![t].pc = "release_reset",
                                                    ![t].pool = buffers[u].owning_pool_,
                                                    ![t].buffer = u]
                                   ELSE thr
                     /\ UNCHANGED <<pools, numa_pools_, manager_mutex_>>
          /\ Deallocate(t, NullBuffer) => UNCHANGED vars]_vars

\* C30 witness: the caller holds two references of a buffer it got from the
\* manager's global pool on a request for another node, so that a
\* deallocate() of the first is not the last release and one of the second is.
C30_Witness ==
    \E u \in DOMAIN buffers :
        /\ thr[User].pc = "idle"
        /\ CopiesIn(u, held[User]) = 2
        /\ RefCount(u) = 2
        /\ u[1][1] = GlobalNode
        /\ 0 \in DOMAIN numa_pools_
        /\ pools[u[1]].dealloc_count_ >= 1

\* Thread t is inside a critical section of manager_mutex_.
InManager(t) ==
    thr[t].pc \in {"configure", "configure_insert", "configure_assign", "find_pool"}

\* Pool p is as the constructor leaves it: every unit free, ref_count 0.
FreshPool(p) ==
    /\ Constructed(p)
    /\ FreeUnits(p) = Units(p)
    /\ get_free_count(pools[p]) = pools[p].initial_pool_count_
    /\ \A u \in Units(p) : RefCount(u) = 0

\* C31: registration calls and allocate lookups are serialized under every
\* interleaving: at most one thread is inside the registry at a time; an
\* allocate that looks up the registry finds under every key a completely
\* constructed pool, never an absent or partially constructed one; a pool is
\* stored with all its units built, in the free list and with ref_count 0;
\* and concurrent registrations of one pair construct exactly one pool.
C31_RegistrySerialized ==
    /\ [](Cardinality({t \in Threads : InManager(t)}) <= 1)
    /\ [](\A t \in Threads : InManager(t) <=> manager_mutex_ = t)
    /\ [](\A t \in Threads :
             thr[t].pc = "find_pool" =>
                 \A n \in DOMAIN numa_pools_ : \A k \in DOMAIN numa_pools_[n] :
                     /\ numa_pools_[n][k] = <<n, k>>
                     /\ Constructed(numa_pools_[n][k]))
    /\ [][\A t \in Threads :
             /\ (thr[t].pc = "configure" /\ thr'[t].pc = "configure_insert") =>
                    /\ thr'[t].pool \notin DOMAIN pools
                    /\ thr[t].node \in DOMAIN numa_pools_
                    /\ thr'[t].pool[2] \notin DOMAIN numa_pools_[thr[t].node]
             /\ \A p \in DOMAIN pools :
                    (/\ thr[t].pc = "configure_assign"
                     /\ thr'[t].pc = "configure"
                     /\ thr[t].pool = p) =>
                        /\ FreshPool(p)'
                        /\ numa_pools_'[p[1]][p[2]] = p]_vars

\* C31 witness: one thread has inserted the key of the pool it is
\* registering and not yet stored the pool, while the other thread waits at
\* the lock of an allocate for that size and node.
C31_Witness ==
    \E t1 \in Threads, t2 \in Threads :
        /\ thr[t1].pc = "configure_assign"
        /\ numa_pools_[thr[t1].node][thr[t1].pool[2]] = NoPool
        /\ thr[t2].pc = "idle"
        /\ manager_mutex_ = t1
        /\ ENABLED ConfigureAssign(t1)
        /\ ~ENABLED AllocateLock(t2, thr[t1].pool[2], thr[t1].node)
        /\ TotalAllocs < MaxMgrAllocs

\* No allocate_buffer() or deallocate_buffer() call on pool p is in progress.
Quiescent(p) ==
    \A t \in Threads :
        thr[t].pool = p =>
            thr[t].pc \notin {"alloc_back", "alloc_pop", "alloc_init", "alloc_count",
                              "dealloc_lock", "dealloc_push"}

\* C32: in every quiescent state of a pool, alloc_count - dealloc_count equals
\* the total unit count minus free_count; alloc_count increases, by 1, only
\* when allocate_buffer() returns a unit, dealloc_count increases, by 1, only
\* when a unit is pushed back, and neither counter ever decreases.
C32_Counters ==
    /\ [](\A p \in DOMAIN pools :
             Quiescent(p) =>
                 pools[p].alloc_count_ - pools[p].dealloc_count_
                     = pools[p].initial_pool_count_ - get_free_count(pools[p]))
    /\ [][\A p \in DOMAIN pools :
             /\ pools'[p].alloc_count_ >= pools[p].alloc_count_
             /\ pools'[p].dealloc_count_ >= pools[p].dealloc_count_
             /\ pools'[p].alloc_count_ # pools[p].alloc_count_ =>
                    /\ pools'[p].alloc_count_ = pools[p].alloc_count_ + 1
                    /\ \E t \in Threads, u \in Units(p) :
                           /\ thr[t].pc = "alloc_count"
                           /\ thr[t].buffer = u
                           /\ thr'[t].pc = "idle"
                           /\ held'[t] = held[t] (+) SetToBag({u})
                           /\ RefCount(u) = 1
             /\ pools'[p].dealloc_count_ # pools[p].dealloc_count_ =>
                    /\ pools'[p].dealloc_count_ = pools[p].dealloc_count_ + 1
                    /\ \E u \in Units(p) :
                           pools'[p].free_list_ = Append(pools[p].free_list_, u)]_vars

\* C32 witness: no allocate_buffer() or deallocate_buffer() is in progress,
\* units were allocated and pushed back, and one unit is out with ref_count
\* 0: its last release() has not called deallocate_buffer yet.
C32_Witness ==
    \E p \in DOMAIN pools, t \in Threads :
        /\ Quiescent(p)
        /\ thr[t].pc = "release_reset"
        /\ thr[t].pool = p
        /\ RefCount(thr[t].buffer) = 0
        /\ pools[p].dealloc_count_ >= 1
        /\ pools[p].alloc_count_ >= 3

----------------------------------------------------------------------------
\* Calls that wait: a call into the registry is entered first and takes
\* manager_mutex_ in a later step, so that a thread blocked on the mutex is
\* a state of its own.

\* PoolManager::allocate(desired_payload_size, numa_node) is entered.
AllocateCall(t, desired_payload_size, numa_node) ==
    /\ thr[t].pc = "idle"
    /\ TotalAllocs < MaxMgrAllocs
    /\ thr' = [thr EXCEPT ![t].pc = "allocate", ![t].size = desired_payload_size,
                          ![t].node = numa_node]
    /\ UNCHANGED <<pools, buffers, numa_pools_, manager_mutex_, held>>

\* The lock_guard of allocate() gets manager_mutex_.
AllocateAcquire(t) ==
    /\ thr[t].pc = "allocate"
    /\ lock_guard(manager_mutex_)
    /\ manager_mutex_' = t
    /\ thr' = [thr EXCEPT ![t].pc = "find_pool"]
    /\ UNCHANGED <<pools, buffers, numa_pools_, held>>

\* configure_pools_for_numa_node(numa_node, configs) is entered.
ConfigureCall(t, numa_node, configs) ==
    /\ thr[t].pc = "idle"
    /\ thr' = [thr EXCEPT ![t].pc = "configure_lock", ![t].node = numa_node,
                          ![t].configs = configs]
    /\ UNCHANGED <<pools, buffers, numa_pools_, manager_mutex_, held>>

\* Its lock_guard gets manager_mutex_; numa_pools_[numa_node] creates the
\* node's map if absent.
ConfigureAcquire(t) ==
    /\ thr[t].pc = "configure_lock"
    /\ lock_guard(manager_mutex_)
    /\ manager_mutex_' = t
    /\ numa_pools_' = IF thr[t].node \in DOMAIN numa_pools_
                          THEN numa_pools_
                          ELSE numa_pools_ @@ (thr[t].node :> << >>)
    /\ thr' = [thr EXCEPT ![t].pc = "configure"]
    /\ UNCHANGED <<pools, buffers, held>>

\* The pool the threads register and allocate from: one unit, so that the
\* second allocation finds the pool exhausted.
WaitConfig == [buffer_size |-> 1, initial_count |-> 1, headroom |-> 0, tailroom |-> 0]

\* A thread enters a call.
CallStep(t) ==
    \/ ConfigureCall(t, 0, <<WaitConfig>>)
    \/ AllocateCall(t, 1, 0)
    \/ \E u \in DOMAIN buffers : Release(t, u)

\* A thread gets the mutex it is waiting for.
AcquireStep(t) ==
    \/ ConfigureAcquire(t)
    \/ AllocateAcquire(t)
    \/ ManagerAllocateBufferLock(t)
    \/ DeallocateBufferLock(t)

\* A thread inside a call executes its next statement.
RunStep(t) ==
    \/ ConfigureLoop(t)
    \/ ConfigureInsert(t)
    \/ ConfigureAssign(t)
    \/ ConfigureReturn(t)
    \/ AllocateFind(t)
    \/ AllocateBufferBack(t)
    \/ AllocateBufferPop(t)
    \/ AllocateBufferInit(t)
    \/ AllocateBufferReturn(t)
    \/ ReleaseReset(t)
    \/ DeallocateBufferPush(t)

NextWait == \E t \in Threads : CallStep(t) \/ AcquireStep(t) \/ RunStep(t)

SpecWait == InitMgr /\ [][NextWait]_vars

\* Fair scheduling: a thread inside a call keeps running, and a thread
\* waiting for a mutex that becomes free again and again gets it.  No
\* thread is obliged to enter a call.
Fairness == \A t \in Threads : WF_vars(RunStep(t)) /\ SF_vars(AcquireStep(t))

FairSpecWait == SpecWait /\ Fairness

----------------------------------------------------------------------------
\* Chains: one thread allocates, shares, links and releases the two
\* buffers of a pool.

ChainStep(t) ==
    \/ PoolStep(t, {t})
    \/ \E u \in DOMAIN buffers, n \in DOMAIN buffers \cup {NullBuffer} : SetNextBuffer(t, u, n)

NextChain == ChainStep(User)

SpecChain == InitBuffer /\ [][NextChain]_vars

----------------------------------------------------------------------------
\* The window primitive the buffer tests call (tests/packet_buffer_test.cpp
\* 169, 184, 219): the window start goes back to buffer_start_ + headroom_
\* and data_len_ is left as it is (ASSERT_EQ at line 221).

reset_data_ptr(b) == [b EXCEPT !.data_ptr_ = b.buffer_start_ + b.headroom_]

ResetDataPtr(t, u) ==
    /\ thr[t].pc = "idle"
    /\ Holds(t, u)
    /\ buffers' = [buffers EXCEPT ![u] = reset_data_ptr(@)]
    /\ UNCHANGED <<pools, numa_pools_, manager_mutex_, thr, held>>

\* One buffer of payload 2 and tailroom 1, with and without headroom.
WindowConfigs == {[buffer_size |-> 2, initial_count |-> 1, headroom |-> h, tailroom |-> 1] : h \in 0 .. 1}

InitWindow == \E config \in WindowConfigs : InitPool(DirectPool, config)

WindowInRegion(u) ==
    /\ buffers[u].buffer_start_ <= buffers[u].data_ptr_
    /\ buffers[u].data_ptr_ + buffers[u].data_len_ <= buffers[u].buffer_start_ + buffers[u].total_allocated_size_

\* The exploration stops at a window that has left its region: from there
\* the unsigned differences in reserve_tailroom and set_data_len wrap and
\* data_len_ grows in steps of MaxLen up to the width of size_t.
InRegion == \A u \in DOMAIN buffers : WindowInRegion(u)

NextWindow ==
    \/ \E p \in DOMAIN pools : InRegion /\ AllocateBufferLock(User, p)
    \/ InRegion /\ AllocateBufferBack(User)
    \/ InRegion /\ AllocateBufferPop(User)
    \/ InRegion /\ AllocateBufferInit(User)
    \/ InRegion /\ AllocateBufferReturn(User)
    \/ \E u \in DOMAIN buffers : InRegion /\ AddRef(User, u, User)
    \/ \E u \in DOMAIN buffers : InRegion /\ Release(User, u)
    \/ InRegion /\ ReleaseReset(User)
    \/ InRegion /\ DeallocateBufferLock(User)
    \/ InRegion /\ DeallocateBufferPush(User)
    \/ \E u \in DOMAIN buffers, len \in Lengths : InRegion /\ SetDataLen(User, u, len)
    \/ \E u \in DOMAIN buffers, len \in Lengths : InRegion /\ ReserveHeadroom(User, u, len)
    \/ \E u \in DOMAIN buffers, len \in Lengths : InRegion /\ ReserveTailroom(User, u, len)
    \/ \E u \in DOMAIN buffers, n \in DOMAIN buffers \cup {NullBuffer} : InRegion /\ SetNextBuffer(User, u, n)
    \/ \E u \in DOMAIN buffers : InRegion /\ ResetDataPtr(User, u)

SpecWindow == InitWindow /\ [][NextWindow]_vars

\* C33: applying reset_data_ptr to a buffer whose window lies inside its
\* region leaves the window inside the region: data_ptr + data_len
\* <= buffer_start + total_allocated_size still holds after the call.
C33_ResetKeepsWindow ==
    [][\A u \in DOMAIN buffers :
          ResetDataPtr(User, u) /\ WindowInRegion(u) => WindowInRegion(u)']_vars

\* Thread t is inside a call (allocate, a registration or release()).
InCall(t) == thr[t].pc # "idle"

\* Thread t holds the free-list mutex of some pool.
HoldsListMutex(t) == \E p \in DOMAIN pools : pools[p].list_mutex_ = t

LastReleaseOf(t, u) ==
    /\ thr[t].pc \in {"release_reset", "dealloc_lock", "dealloc_push"}
    /\ thr[t].buffer = u

\* C35: chain links carry no ownership.  set_next_buffer(b) on a buffer u
\* changes nothing but u's link, so b's ref_count stays as it is; and every
\* step of the last release() of u (the decrement from 1, the reset that
\* sets u's own link to null, the hand-back to the pool) leaves every other
\* buffer b, the one u was linked to included, with its record (ref_count,
\* window, link) and its free-list membership unchanged.
C35_ChainNoOwnership ==
    [][\A u \in DOMAIN buffers : \A b \in DOMAIN buffers :
          /\ SetNextBuffer(User, u, b) =>
                 /\ RefCount(b)' = RefCount(b)
                 /\ buffers'[u].next_ = b
                 /\ InFreeList(b)' = InFreeList(b)
          /\ (b # u /\ Release(User, u) /\ RefCount(u) = 1) =>
                 /\ buffers'[b] = buffers[b]
                 /\ InFreeList(b)' = InFreeList(b)
          /\ (b # u /\ LastReleaseOf(User, u)) =>
                 /\ buffers'[b] = buffers[b]
                 /\ InFreeList(b)' = InFreeList(b)
          /\ (LastReleaseOf(User, u) /\ thr[User].pc = "release_reset") =>
                 buffers'[u].next_ = NullBuffer]_vars

\* C35 witness: the last release() of a buffer u whose link points to b has
\* taken u's ref_count to 0 and is about to reset u, while b is held with
\* ref_count 1, outside the free list.
C35_Witness ==
    \E u \in DOMAIN buffers, b \in DOMAIN buffers :
        /\ b # u
        /\ LastReleaseOf(User, u)
        /\ thr[User].pc = "release_reset"
        /\ RefCount(u) = 0
        /\ buffers[u].next_ = b
        /\ Holds(User, b)
        /\ RefCount(b) = 1
        /\ ~InFreeList(b)

\* Position of the first config of list L with the size class of L[i].
FirstOfSize(L, i) ==
    CHOOSE j \in 1 .. i :
        /\ L[j].buffer_size = L[i].buffer_size
        /\ \A h \in 1 .. j - 1 : L[h].buffer_size # L[i].buffer_size

\* C36: a registration call with a list of configs registers them in list
\* order and is not atomic.  When the construction for the config at
\* position k fails (its pair is not registered and no earlier config of
\* the list has its size class), the call returns false and the pair of k
\* is not registered; every pair of a config before k is registered, and
\* where the call created the pool it has the parameters of the first config
\* of the list with that size class, all its units free, and allocate for
\* that size and node selects it; a pair of a config after k is registered
\* only if it was registered before the call or is the pair of a config
\* before k.
C36_PartialRegistration ==
    [][\A t \in Threads, n \in ConfigNodes, L \in RegisterLists :
          \A k \in 1 .. Len(L) :
              (/\ RegistrationCall(t)
               /\ thr'[t].node = n
               /\ thr'[t].configs = L
               /\ ~Registered(n, L[k].buffer_size)
               /\ \A i \in 1 .. k - 1 : L[i].buffer_size # L[k].buffer_size
               /\ configure_pools_for_numa_node(t, n, L, k)) =>
                  /\ thr'[t].ret = FALSE
                  /\ ~Registered(n, L[k].buffer_size)'
                  /\ \A i \in 1 .. k - 1 :
                         /\ Registered(n, L[i].buffer_size)'
                         /\ ~Registered(n, L[i].buffer_size) =>
                                LET p == <<n, L[i].buffer_size>>
                                    first == L[FirstOfSize(L, i)]
                                IN  /\ numa_pools_'[n][L[i].buffer_size] = p
                                    /\ FreshPool(p)'
                                    /\ pools'[p].initial_pool_count_ = first.initial_count
                                    /\ pools'[p].headroom_size_ = first.headroom
                                    /\ pools'[p].tailroom_size_ = first.tailroom
                                    /\ find_pool(numa_pools_', L[i].buffer_size, n) = p
                  /\ \A j \in k + 1 .. Len(L) :
                         Registered(n, L[j].buffer_size)' <=>
                             \/ Registered(n, L[j].buffer_size)
                             \/ \E i \in 1 .. k - 1 :
                                    L[i].buffer_size = L[j].buffer_size]_vars

\* C36 witness: a call with two configs of different size classes has
\* returned false; the registry holds the pair of the first config and
\* nothing else, its pool is the only pool, has the first config's unit
\* count and headroom and all its units free; the pair of the second
\* config is not registered.
C36_Witness ==
    \E t \in Threads, c1 \in RegisterConfigs, c2 \in RegisterConfigs :
        /\ thr[t].pc = "configure_return"
        /\ thr[t].ret = FALSE
        /\ thr[t].configs = <<c1, c2>>
        /\ c1.buffer_size # c2.buffer_size
        /\ DOMAIN numa_pools_ = {thr[t].node}
        /\ DOMAIN numa_pools_[thr[t].node] = {c1.buffer_size}
        /\ DOMAIN pools = {<<thr[t].node, c1.buffer_size>>}
        /\ FreshPool(<<thr[t].node, c1.buffer_size>>)
        /\ pools[<<thr[t].node, c1.buffer_size>>].initial_pool_count_ = c1.initial_count
        /\ pools[<<thr[t].node, c1.buffer_size>>].headroom_size_ = c1.headroom
        /\ pools[<<thr[t].node, c1.buffer_size>>].alloc_count_ = 0
====
